---- MODULE Spec2Model ----
(***************************************************************************)
(* Model of the JSON-driven prompt subsystem of mcp-test:                  *)
(*   src/src/prompts/validator.py        ContentValidator                  *)
(*   src/src/prompts/prompt_loader.py    JSONPromptLoader                  *)
(*   src/src/prompts/prompt_registry.py  PromptRegistry                    *)
(*                                                                         *)
(* Python values are records [k, s, n, b]: k is the runtime type, s the    *)
(* text of a str, n the number of an int (a float holds its tenths), b the *)
(* truth value of a bool.  A dict is the sequence of its [key, val] items  *)
(* in insertion order.  An optional JSON field is <<>> when absent and     *)
(* <<x>> when present with value x.                                       *)
(***************************************************************************)
EXTENDS Integers, Sequences, FiniteSets, TLC

VARIABLES content_data, schema, loader, registered_prompts, mcp, last, calls,
          client, server

vars ==
    <<content_data, schema, loader, registered_prompts, mcp, last, calls, client, server>>

(***************************************************************************)
(* Bounds of the model.                                                    *)
(***************************************************************************)
\* most keyword arguments one invocation supplies
MaxKwargs == 2
\* register_prompts_from_json is called while the host holds fewer callables
\* than this
MaxHostPrompts == 4
\* the request contexts that invoke synthesized prompt functions at the same
\* time
MaxInFlight == 2
\* the requests one client sends, and the servers it starts
MaxRequests == 3
MaxServers == 2
\* the instants of one day the clock can show: 0 is midnight
TicksPerDay == 2

(***************************************************************************)
(* Optional fields and ordered dicts.                                      *)
(***************************************************************************)
None == <<>>
Some(x) == <<x>>
Has(o) == Len(o) > 0
Get(o) == o[1]
\* dict.get(key, default) on an optional field
GetOr(o, dflt) == IF Has(o) THEN Get(o) ELSE dflt

Item(k, v) == [key |-> k, val |-> v]
DictKeys(d) == {d[i].key : i \in 1..Len(d)}
DictHas(d, k) == k \in DictKeys(d)
DictGet(d, k) == d[CHOOSE i \in 1..Len(d) : d[i].key = k].val
\* d[k] = v: an existing key keeps its position, a new key goes last
DictPut(d, k, v) ==
    IF DictHas(d, k)
    THEN [i \in 1..Len(d) |-> IF d[i].key = k THEN Item(k, v) ELSE d[i]]
    ELSE Append(d, Item(k, v))
\* a dict has one item per key
IsDict(d) == \A i, j \in 1..Len(d) : d[i].key = d[j].key => i = j

(***************************************************************************)
(* Python values.                                                          *)
(***************************************************************************)
PyStr(s) == [k |-> "str", s |-> s, n |-> 0, b |-> FALSE]
PyInt(n) == [k |-> "int", s |-> "", n |-> n, b |-> FALSE]
PyFloat(tenths) == [k |-> "float", s |-> "", n |-> tenths, b |-> FALSE]
PyBool(b) == [k |-> "bool", s |-> "", n |-> 0, b |-> b]
PyNone == [k |-> "NoneType", s |-> "", n |-> 0, b |-> FALSE]

\* isinstance(value, types), types with their subclasses: bool is a subclass
\* of int
isinstance(value, types) == value.k \in types

DigitText(d) ==
    CASE d = 0 -> "0" [] d = 1 -> "1" [] d = 2 -> "2" [] d = 3 -> "3"
      [] d = 4 -> "4" [] d = 5 -> "5" [] d = 6 -> "6" [] d = 7 -> "7"
      [] d = 8 -> "8" [] d = 9 -> "9"

RECURSIVE NatText(_)
NatText(n) == IF n < 10 THEN DigitText(n) ELSE NatText(n \div 10) \o DigitText(n % 10)

\* str(value), which is what "{name}".format(name=value) writes
PyFormat(value) ==
    CASE value.k = "str" -> value.s
      [] value.k = "int" -> NatText(value.n)
      [] value.k = "float" -> NatText(value.n \div 10) \o "." \o DigitText(value.n % 10)
      [] value.k = "bool" -> IF value.b THEN "True" ELSE "False"
      [] value.k = "NoneType" -> "None"

\* str.upper / lower / title / capitalize on the texts of the model
StrMethod(method_name, s) ==
    CASE method_name = "upper" ->
            (CASE s = "resource" -> "RESOURCE" [] s \in {"python", "Python"} -> "PYTHON"
               [] s = "tool" -> "TOOL" [] s = "beginner" -> "BEGINNER"
               [] s = "mcp" -> "MCP" [] s = "java" -> "JAVA" [] OTHER -> s)
      [] method_name = "lower" ->
            (CASE s \in {"Python", "PYTHON"} -> "python" [] s = "MCP" -> "mcp"
               [] OTHER -> s)
      [] method_name \in {"title", "capitalize"} ->
            (CASE s = "resource" -> "Resource" [] s = "python" -> "Python"
               [] s = "tool" -> "Tool" [] s = "beginner" -> "Beginner" [] OTHER -> s)
      [] OTHER -> s

(***************************************************************************)
(* Templates: the sequence of the pieces str.format sees, left to right.   *)
(*   lit    literal text without braces                                    *)
(*   named  {a}                                                            *)
(*   method {a.m()}                                                        *)
(*   pos    {}                                                             *)
(*   brace  a single }                                                     *)
(***************************************************************************)
Lit(text) == [t |-> "lit", a |-> text, m |-> ""]
Named(a) == [t |-> "named", a |-> a, m |-> ""]
Method(a, m) == [t |-> "method", a |-> a, m |-> m]
Pos == [t |-> "pos", a |-> "", m |-> ""]
Brace == [t |-> "brace", a |-> "", m |-> ""]

\* the text of one piece as written in the template
TokenText(tok) ==
    CASE tok.t = "lit" -> tok.a
      [] tok.t = "named" -> "{" \o tok.a \o "}"
      [] tok.t = "method" -> "{" \o tok.a \o "." \o tok.m \o "()}"
      [] tok.t = "pos" -> "{}"
      [] tok.t = "brace" -> "}"

RECURSIVE TemplateText(_)
TemplateText(template) ==
    IF template = <<>> THEN ""
    ELSE TokenText(Head(template)) \o TemplateText(Tail(template))

(***************************************************************************)
(* ContentValidator.validate_arguments                                     *)
(***************************************************************************)
\* what a call returns or raises
Raised(exc, msg, arg) ==
    [ok |-> FALSE, exc |-> exc, msg |-> msg, arg |-> arg, args |-> <<>>]

\* arg_definitions: the lookup of the declared names
arg_definitions(prompt_args) == {prompt_args[i].name : i \in 1..Len(prompt_args)}

\* the provided keys that are not declared, by position in provided_args
UnknownPositions(prompt_args, provided_args) ==
    {i \in 1..Len(provided_args) : provided_args[i].key \notin arg_definitions(prompt_args)}

Min(S) == CHOOSE x \in S : \A y \in S : x <= y

\* the basic type check of one supplied value: "" when it passes, else the
\* word of the error message
TypeError(expected_type, value) ==
    CASE expected_type = "string" /\ ~isinstance(value, {"str"}) -> "a string"
      [] expected_type = "number" /\ ~isinstance(value, {"int", "float", "bool"}) -> "a number"
      [] expected_type = "boolean" /\ ~isinstance(value, {"bool"}) -> "a boolean"
      [] OTHER -> ""

\* the branch taken for an argument that was not supplied and is not required
DefaultTruthy(arg_def, processed_args) ==
    LET default_value == GetOr(arg_def.default, PyNone)
    IN IF default_value \notin {PyNone, PyBool(FALSE), PyInt(0), PyStr("")}
       THEN DictPut(processed_args, arg_def.name, default_value)
       ELSE processed_args

ApplyDefault(arg_def, processed_args) ==
    LET default_value == GetOr(arg_def.default, PyNone)
    IN IF default_value # PyNone
       THEN DictPut(processed_args, arg_def.name, default_value)
       ELSE processed_args

\* the loop over the declared arguments, from position i on
RECURSIVE ProcessArguments(_, _, _, _)
ProcessArguments(prompt_args, provided_args, i, processed_args) ==
    IF i > Len(prompt_args) THEN [ok |-> TRUE, exc |-> "", msg |-> "", arg |-> "", args |-> processed_args]
    ELSE
      LET arg_def == prompt_args[i]
          arg_name == arg_def.name
          is_required == GetOr(arg_def.required, FALSE)
          expected_type == GetOr(arg_def.type, "string")
      IN IF DictHas(provided_args, arg_name)
         THEN LET value == DictGet(provided_args, arg_name)
                  bad == TypeError(expected_type, value)
              IN IF bad # ""
                 THEN Raised("ValueError",
                             "Argument '" \o arg_name \o "' must be " \o bad, arg_name)
                 ELSE ProcessArguments(prompt_args, provided_args, i + 1,
                                       DictPut(processed_args, arg_name, value))
         ELSE IF is_required
              THEN Raised("ValueError", "Required argument missing: " \o arg_name, arg_name)
              ELSE ProcessArguments(prompt_args, provided_args, i + 1,
                                    ApplyDefault(arg_def, processed_args))

validate_arguments_ignoring_unknown(prompt_args, provided_args) ==
    ProcessArguments(prompt_args, provided_args, 1, <<>>)

validate_arguments_required_as_absent(prompt_args, provided_args) ==
    LET unknown == UnknownPositions(prompt_args, provided_args)
        optional == [i \in 1..Len(prompt_args) |->
                        [prompt_args[i] EXCEPT !.required = None]]
    IN IF unknown # {}
       THEN LET arg_name == provided_args[Min(unknown)].key
            IN Raised("ValueError", "Unknown argument: " \o arg_name, arg_name)
       ELSE ProcessArguments(optional, provided_args, 1, <<>>)

validate_arguments_unknown_last(prompt_args, provided_args) ==
    LET unknown == UnknownPositions(prompt_args, provided_args)
        declared == SelectSeq(provided_args,
                              LAMBDA item : item.key \in arg_definitions(prompt_args))
        processed == ProcessArguments(prompt_args, declared, 1, <<>>)
    IN IF ~processed.ok THEN processed
       ELSE IF unknown # {}
       THEN LET arg_name == provided_args[Min(unknown)].key
            IN Raised("ValueError", "Unknown argument: " \o arg_name, arg_name)
       ELSE processed

validate_arguments(prompt_args, provided_args) ==
    LET unknown == UnknownPositions(prompt_args, provided_args)
    IN IF unknown # {}
       THEN LET arg_name == provided_args[Min(unknown)].key
            IN Raised("ValueError", "Unknown argument: " \o arg_name, arg_name)
       ELSE ProcessArguments(prompt_args, provided_args, 1, <<>>)

(***************************************************************************)
(* JSONPromptLoader: the synthesized prompt function                       *)
(***************************************************************************)
\* the names in which Python's `needle in prompt_name` holds
Contains(prompt_name, needle) ==
    \/ prompt_name = needle
    \/ needle = "mcp_development_prompt" /\ prompt_name = "my_mcp_development_prompt_v2"

_process_mcp_development_args(args) ==
    LET component_type == IF DictHas(args, "component_type")
                          THEN DictGet(args, "component_type") ELSE PyStr("tool")
        guidance ==
            CASE component_type = PyStr("tool") ->
                    "functions that can be called by the LLM to perform actions"
              [] component_type = PyStr("resource") ->
                    "static or dynamic content that can be accessed by the LLM"
              [] component_type = PyStr("prompt") ->
                    "template messages that help structure LLM interactions"
              [] component_type = PyStr("server") ->
                    "complete MCP server with multiple tools, resources, and prompts"
              [] OTHER -> "MCP components"
    IN DictPut(args, "component_guidance", PyStr(guidance))

_process_debugging_args(args) ==
    LET error_type == IF DictHas(args, "error_type")
                      THEN DictGet(args, "error_type") ELSE PyStr("runtime")
        steps ==
            CASE error_type = PyStr("runtime") ->
                    "stack trace analysis, variable inspection, and runtime state examination"
              [] error_type = PyStr("syntax") ->
                    "code parsing, syntax validation, and formatting issues"
              [] error_type = PyStr("logic") ->
                    "algorithm review, test case analysis, and expected vs actual behavior"
              [] error_type = PyStr("performance") ->
                    "profiling, bottleneck identification, and optimization opportunities"
              [] OTHER -> "general debugging methodology"
    IN DictPut(args, "debugging_steps", PyStr(steps))

\* replace_method_call on one {var.method()} match
replace_method_call(tok, args) ==
    IF /\ tok.t = "method"
       /\ DictHas(args, tok.a)
       /\ isinstance(DictGet(args, tok.a), {"str"})
       /\ tok.m \in {"upper", "lower", "title", "capitalize"}
    THEN Lit(StrMethod(tok.m, DictGet(args, tok.a).s))
    ELSE tok

_preprocess_template(template, args) ==
    [i \in 1..Len(template) |-> replace_method_call(template[i], args)]

\* str.format(**args): pieces are rendered left to right and the first piece
\* that cannot be rendered raises
FormatRaised(exc, arg) == [ok |-> FALSE, exc |-> exc, arg |-> arg, text |-> ""]

RECURSIVE FormatFrom(_, _, _, _)
FormatFrom(template, args, i, out) ==
    IF i > Len(template) THEN [ok |-> TRUE, exc |-> "", arg |-> "", text |-> out]
    ELSE
      LET tok == template[i]
      IN CASE tok.t = "lit" -> FormatFrom(template, args, i + 1, out \o tok.a)
           [] tok.t = "named" ->
                IF DictHas(args, tok.a)
                THEN FormatFrom(template, args, i + 1,
                                out \o PyFormat(DictGet(args, tok.a)))
                ELSE FormatRaised("KeyError", tok.a)
           [] tok.t = "method" ->
                IF DictHas(args, tok.a)
                THEN FormatRaised("AttributeError", tok.a)
                ELSE FormatRaised("KeyError", tok.a)
           [] tok.t = "pos" -> FormatRaised("IndexError", "")
           [] tok.t = "brace" -> FormatRaised("ValueError", "")

format(template, args) == FormatFrom(template, args, 1, "")

\* one call of the function create_prompt_function(prompt_name, prompt_def) returns
Outcome(validated, exc, arg, warning, messages) ==
    [ok |-> exc = "", exc |-> exc, msg |-> validated.msg, arg |-> arg,
     args |-> validated.args, warning |-> warning, messages |-> messages]

Message(role, content) == [role |-> role, content |-> content]

\* the object the name-specific processing writes its key into with
\* args[key] = value: the dict validate_arguments created for this call
\* (processed_args = {}) and returned, never a dict of the definition
args_written_is_definition(prompt_name, prompt_def) ==
    IF Contains(prompt_name, "mcp_development_prompt")
       \/ Contains(prompt_name, "debugging_assistant_prompt")
    THEN "prompt_def" ELSE "none"

args_written(prompt_name, prompt_def) ==
    IF Contains(prompt_name, "mcp_development_prompt")
       \/ Contains(prompt_name, "debugging_assistant_prompt")
    THEN "processed_args" ELSE "none"

\* the arguments after the name-specific processing
special_processing_skipped(prompt_name, processed_args) == processed_args

\* the arguments after the name-specific processing
special_processing(prompt_name, processed_args) ==
    IF Contains(prompt_name, "mcp_development_prompt")
    THEN _process_mcp_development_args(processed_args)
    ELSE IF Contains(prompt_name, "debugging_assistant_prompt")
         THEN _process_debugging_args(processed_args)
         ELSE processed_args

\* prompt_def.get("role", "user")
message_role_always_user(prompt_def) == "user"

message_role(prompt_def) == GetOr(prompt_def.role, "user")

\* the try block around the formatting: the content, the warning printed, or
\* the exception that leaves the block
Content(text, warning) == [ok |-> TRUE, exc |-> "", arg |-> "", text |-> text,
                           warning |-> warning]
ContentRaised(exc, arg) == [ok |-> FALSE, exc |-> exc, arg |-> arg, text |-> "",
                            warning |-> ""]

formatted_content_without_except(template, processed_args) ==
    LET formatted == format(_preprocess_template(template, processed_args), processed_args)
    IN IF formatted.ok THEN Content(formatted.text, "")
       ELSE ContentRaised(formatted.exc, formatted.arg)

formatted_content_catching_all(template, processed_args) ==
    LET formatted == format(_preprocess_template(template, processed_args), processed_args)
    IN IF formatted.ok THEN Content(formatted.text, "")
       ELSE Content(TemplateText(template),
                    "Warning: Missing placeholder in template: '" \o formatted.arg \o "'")

formatted_content(template, processed_args) ==
    LET formatted == format(_preprocess_template(template, processed_args), processed_args)
    IN IF formatted.ok THEN Content(formatted.text, "")
       ELSE IF formatted.exc = "KeyError"
       THEN Content(TemplateText(template),
                    "Warning: Missing placeholder in template: '" \o formatted.arg \o "'")
       ELSE ContentRaised(formatted.exc, formatted.arg)

prompt_function(prompt_name, prompt_def, kwargs) ==
    LET arg_defs == GetOr(prompt_def.arguments, <<>>)
        validated == validate_arguments(arg_defs, kwargs)
        processed_args == special_processing(prompt_name, validated.args)
        content == formatted_content(Get(prompt_def.template), processed_args)
        role == message_role(prompt_def)
    IN IF ~validated.ok
       THEN Outcome(validated, validated.exc, validated.arg, "", <<>>)
       ELSE IF ~Has(prompt_def.template)
       THEN Outcome(validated, "KeyError", "template", "", <<>>)
       ELSE IF content.ok
       THEN Outcome(validated, "", "", content.warning, <<Message(role, content.text)>>)
       ELSE Outcome(validated, content.exc, content.arg, "", <<>>)

\* obj[key] = value on a definition of the document: the document with that
\* definition written
WriteDefinition(content, prompt_def, key, value) ==
    LET written == [f \in DOMAIN prompt_def \cup {key} |->
                       IF f = key THEN value ELSE prompt_def[f]]
        entries == GetOr(content.prompts, <<>>)
    IN IF ~Has(content.prompts) THEN content
       ELSE [content EXCEPT !.prompts =
                Some([i \in 1..Len(entries) |->
                         IF entries[i].def = prompt_def
                         THEN [entries[i] EXCEPT !.def = written]
                         ELSE entries[i]])]

\* the Configuration Document after one call of prompt_function: the call
\* assigns to locals, except for the key the name-specific processing writes
document_after_call(content, prompt_name, prompt_def, kwargs) ==
    LET validated == validate_arguments(GetOr(prompt_def.arguments, <<>>), kwargs)
    IN IF validated.ok /\ args_written(prompt_name, prompt_def) = "prompt_def"
       THEN WriteDefinition(content, prompt_def, "special",
                            special_processing(prompt_name, validated.args))
       ELSE content

\* the callable create_prompt_function returns, with the annotations the
\* registry adds: its name, the definition it closes over, its parameter types
python_type(arg) ==
    LET arg_type == GetOr(arg.type, "string")
    IN CASE arg_type = "string" -> "str"
         [] arg_type = "number" -> "float"
         [] arg_type = "boolean" -> "bool"
         [] OTHER -> "str"

RECURSIVE Annotations(_, _, _)
Annotations(arguments, i, annotations) ==
    IF i > Len(arguments) THEN annotations
    ELSE Annotations(arguments, i + 1,
                     DictPut(annotations, arguments[i].name, python_type(arguments[i])))

create_prompt_function(prompt_name, prompt_def) ==
    [name |-> prompt_name, prompt_def |-> prompt_def, annotations |-> <<>>]

_add_mcp_annotations(func, prompt_def) ==
    [func EXCEPT !.annotations = Annotations(GetOr(prompt_def.arguments, <<>>), 1, <<>>)]

(***************************************************************************)
(* The schema checks.  The schema file data/content_schema.json is an      *)
(* input of the validator; what it requires is taken from the              *)
(* specification: a prompt definition needs a template and well-formed     *)
(* argument specs, and the root schema may or may not reach the            *)
(* definitions below `prompts`.                                            *)
(***************************************************************************)
Schemas == {[root_refs_prompt |-> TRUE], [root_refs_prompt |-> FALSE]}

PromptSchemaOk(prompt_data) ==
    /\ Has(prompt_data.template)
    /\ \A i \in 1..Len(GetOr(prompt_data.arguments, <<>>)) :
          LET arg == Get(prompt_data.arguments)[i]
          IN Has(arg.type) => Get(arg.type) \in {"string", "number", "boolean"}

Passed == [ok |-> TRUE, exc |-> "", msg |-> ""]
Failed(exc, msg) == [ok |-> FALSE, exc |-> exc, msg |-> msg]

validate_prompt(prompt_data) ==
    IF PromptSchemaOk(prompt_data) THEN Passed
    ELSE Failed("ValidationError", "Prompt validation failed")

\* the (category, key, definition) entries of the prompts section, in the
\* order the nested iteration visits them
PromptEntries(content) == GetOr(content.prompts, <<>>)

validate_content(sch, content) ==
    IF sch.root_refs_prompt
       /\ \E i \in 1..Len(PromptEntries(content)) :
             ~PromptSchemaOk(PromptEntries(content)[i].def)
    THEN Failed("ValidationError", "Content validation failed")
    ELSE Passed

(***************************************************************************)
(* JSONPromptLoader.load_prompts                                           *)
(***************************************************************************)
\* prompt_def.get("name", prompt_key)
PromptNameKeyFirst(entry) == entry.key

PromptName(entry) == GetOr(entry.def.name, entry.key)

LoadResult(ok, exc, returned, prompts) ==
    [ok |-> ok, exc |-> exc, returned |-> returned, prompts |-> prompts]

\* the loop from entry i on; self_prompts is the cache before the call
RECURSIVE LoadFromPartial(_, _, _, _)
LoadFromPartial(entries, i, loaded_prompts, self_prompts) ==
    IF i > Len(entries)
    THEN LoadResult(TRUE, "", loaded_prompts, loaded_prompts)
    ELSE IF ~validate_prompt(entries[i].def).ok
         THEN LoadResult(FALSE, "ValidationError", <<>>, loaded_prompts)
         ELSE LoadFromPartial(entries, i + 1,
                       DictPut(loaded_prompts, PromptName(entries[i]), entries[i].def),
                       self_prompts)

RECURSIVE LoadFromSkippingInvalid(_, _, _, _)
LoadFromSkippingInvalid(entries, i, loaded_prompts, self_prompts) ==
    IF i > Len(entries)
    THEN LoadResult(TRUE, "", loaded_prompts, loaded_prompts)
    ELSE IF ~validate_prompt(entries[i].def).ok
         THEN LoadFromSkippingInvalid(entries, i + 1, loaded_prompts, self_prompts)
         ELSE LoadFromSkippingInvalid(entries, i + 1,
                       DictPut(loaded_prompts, PromptName(entries[i]), entries[i].def),
                       self_prompts)

RECURSIVE LoadFromKeepingFirst(_, _, _, _)
LoadFromKeepingFirst(entries, i, loaded_prompts, self_prompts) ==
    IF i > Len(entries)
    THEN LoadResult(TRUE, "", loaded_prompts, loaded_prompts)
    ELSE IF ~validate_prompt(entries[i].def).ok
         THEN LoadResult(FALSE, "ValidationError", <<>>, self_prompts)
         ELSE LoadFromKeepingFirst(entries, i + 1,
                       IF DictHas(loaded_prompts, PromptName(entries[i]))
                       THEN loaded_prompts
                       ELSE DictPut(loaded_prompts, PromptName(entries[i]),
                                    entries[i].def),
                       self_prompts)

RECURSIVE LoadFrom(_, _, _, _)
LoadFrom(entries, i, loaded_prompts, self_prompts) ==
    IF i > Len(entries)
    THEN LoadResult(TRUE, "", loaded_prompts, loaded_prompts)
    ELSE IF ~validate_prompt(entries[i].def).ok
         THEN LoadResult(FALSE, "ValidationError", <<>>, self_prompts)
         ELSE LoadFrom(entries, i + 1,
                       DictPut(loaded_prompts, PromptName(entries[i]), entries[i].def),
                       self_prompts)

\* returns what the call returns and what self.prompts is afterwards
load_prompts(content, self_prompts) ==
    LoadFrom(PromptEntries(content), 1, <<>>, self_prompts)

(***************************************************************************)
(* JSONPromptLoader.get_prompt_names and get_prompt_definition             *)
(***************************************************************************)
\* what a getter returns or raises, the cache after it, and how often it ran
\* load_prompts
Got(ok, exc, msg, returned, prompts, load_runs) ==
    [ok |-> ok, exc |-> exc, msg |-> msg, returned |-> returned, prompts |-> prompts,
     load_runs |-> load_runs]

\* if not self.prompts: self.load_prompts()
load_if_empty(content, self_prompts) ==
    IF self_prompts = <<>>
    THEN LET r == load_prompts(content, self_prompts)
         IN Got(r.ok, r.exc, "", None, r.prompts, 1)
    ELSE Got(TRUE, "", "", None, self_prompts, 0)

get_prompt_names(content, self_prompts) ==
    LET cached == load_if_empty(content, self_prompts)
    IN IF ~cached.ok THEN cached
       ELSE [cached EXCEPT !.returned =
                Some([i \in 1..Len(cached.prompts) |-> cached.prompts[i].key])]

JSONPromptLoader_get_prompt_definition(content, self_prompts, prompt_name) ==
    LET cached == load_if_empty(content, self_prompts)
    IN IF ~cached.ok THEN cached
       ELSE IF ~DictHas(cached.prompts, prompt_name)
       THEN [cached EXCEPT !.ok = FALSE, !.exc = "KeyError",
                           !.msg = "Prompt not found: " \o prompt_name]
       ELSE [cached EXCEPT !.returned = Some(DictGet(cached.prompts, prompt_name))]

(***************************************************************************)
(* PromptRegistry.register_prompts_from_json                               *)
(***************************************************************************)
RegisterResult(ok, exc, host, table) ==
    [ok |-> ok, exc |-> exc, mcp |-> host, registered_prompts |-> table]

\* _register_single_prompt for the loaded prompts from position i on
RECURSIVE RegisterFromNamedOnly(_, _, _, _)
RegisterFromNamedOnly(prompts, i, host, table) ==
    IF i > Len(prompts) THEN RegisterResult(TRUE, "", host, table)
    ELSE
      LET prompt_name == prompts[i].key
          prompt_def == prompts[i].val
          prompt_fn == _add_mcp_annotations(
                          create_prompt_function(prompt_name, prompt_def), prompt_def)
      IN RegisterFromNamedOnly(prompts, i + 1, Append(host, prompt_fn),
                      IF Has(prompt_def.name)
                      THEN DictPut(table, prompt_name,
                                   [function |-> prompt_fn, definition |-> prompt_def])
                      ELSE table)

RECURSIVE RegisterFrom(_, _, _, _)
RegisterFrom(prompts, i, host, table) ==
    IF i > Len(prompts) THEN RegisterResult(TRUE, "", host, table)
    ELSE
      LET prompt_name == prompts[i].key
          prompt_def == prompts[i].val
          prompt_fn == _add_mcp_annotations(
                          create_prompt_function(prompt_name, prompt_def), prompt_def)
      IN RegisterFrom(prompts, i + 1, Append(host, prompt_fn),
                      DictPut(table, prompt_name,
                              [function |-> prompt_fn, definition |-> prompt_def]))

register_prompts_from_json(sch, host, table, content) ==
    LET constructed == validate_content(sch, content)
        loaded == load_prompts(content, <<>>)
    IN IF ~constructed.ok THEN RegisterResult(FALSE, constructed.exc, host, table)
       ELSE IF ~loaded.ok THEN RegisterResult(FALSE, loaded.exc, host, table)
       ELSE RegisterFrom(loaded.returned, 1, host, table)

(***************************************************************************)
(* PromptRegistry lookups                                                  *)
(***************************************************************************)
\* what a lookup returns or raises, and the table after it
Lookup(ok, exc, msg, returned, table) ==
    [ok |-> ok, exc |-> exc, msg |-> msg, returned |-> returned,
     registered_prompts |-> table]

get_registered_prompts(table) == Lookup(TRUE, "", "", Some(table), table)

PromptRegistry_get_prompt_definition_popping(table, prompt_name) ==
    IF ~DictHas(table, prompt_name)
    THEN Lookup(FALSE, "KeyError", "Prompt not registered: " \o prompt_name, None, table)
    ELSE Lookup(TRUE, "", "", Some(DictGet(table, prompt_name).definition),
                SelectSeq(table, LAMBDA item : item.key # prompt_name))

PromptRegistry_get_prompt_definition(table, prompt_name) ==
    IF ~DictHas(table, prompt_name)
    THEN Lookup(FALSE, "KeyError", "Prompt not registered: " \o prompt_name, None, table)
    ELSE Lookup(TRUE, "", "", Some(DictGet(table, prompt_name).definition), table)

(***************************************************************************)
(* load_content_from_json.  A file is missing, or holds bytes that are not *)
(* UTF-8, or text that is not JSON, or a JSON value.                       *)
(***************************************************************************)
\* a file that cannot be read as JSON: "missing", "unreadable", "undecodable"
\* or "malformed"
NoJson(kind) == [kind |-> kind, value |-> <<>>]
JsonFile(value) == [kind |-> "json", value |-> <<value>>]

\* current_dir.parent / "data" / "content.json"
default_path == "src/data/content.json"

Loaded(content) == [ok |-> TRUE, exc |-> "", msg |-> "", returned |-> Some(content)]
LoadFailed(exc, msg) == [ok |-> FALSE, exc |-> exc, msg |-> msg, returned |-> None]

load_content_from_json_unvalidated(json_file_path, fs, sch) ==
    LET json_path == IF json_file_path = None THEN default_path ELSE Get(json_file_path)
        file == fs[json_path]
    IN IF file.kind = "missing"
       THEN LoadFailed("FileNotFoundError", "Content file not found: " \o json_path)
       ELSE IF file.kind = "undecodable" THEN LoadFailed("UnicodeDecodeError", "")
       ELSE IF file.kind = "malformed"
       THEN LoadFailed("ValueError", "Invalid JSON in content file")
       ELSE Loaded(Get(file.value))

load_content_from_json(json_file_path, fs, sch) ==
    LET json_path == IF json_file_path = None THEN default_path ELSE Get(json_file_path)
        file == fs[json_path]
    IN IF file.kind = "missing"
       THEN LoadFailed("FileNotFoundError", "Content file not found: " \o json_path)
       ELSE IF file.kind = "undecodable" THEN LoadFailed("UnicodeDecodeError", "")
       ELSE IF file.kind = "malformed"
       THEN LoadFailed("ValueError", "Invalid JSON in content file")
       ELSE LET checked == validate_content(sch, Get(file.value))
            IN IF checked.ok THEN Loaded(Get(file.value))
               ELSE LoadFailed(checked.exc, checked.msg)

(***************************************************************************)
(* The tips-only loader of utils.py and the tips resource.  A JSON value   *)
(* read from a tips file is a dict or not; the value of a category is a    *)
(* list of tips or not.                                                    *)
(***************************************************************************)
ListOf(tips) == [is_list |-> TRUE, tips |-> tips]
DictOf(items) == [is_dict |-> TRUE, items |-> items]

default_tips ==
    DictOf(<<Item("mcp-test",
        ListOf(<<"Configure this server by adding it to your MCP client configuration file",
                 "Set the TIPS_JSON_PATH environment variable to load custom tips from a JSON file",
                 "Use 'uv run src/server.py' to start the server in development mode",
                 "Test the server tools using get_current_time, generate_greeting, and get_tips functions",
                 "The server provides tips categorized by technology - add more categories as needed",
                 "Extend functionality by adding new @mcp.tool() decorated functions to the server">>))>>)

\* the function always returns: the tips and where they come from
TipsReturned(tips, from) == [ok |-> TRUE, exc |-> "", returned |-> Some(tips), from |-> from]
TipsRaised(exc) == [ok |-> FALSE, exc |-> exc, returned |-> None, from |-> ""]

\* the body of the try block, given the file at json_file_path
tips_from_file_without_catch_all(file) ==
    IF file.kind = "missing" THEN TipsReturned(default_tips, "default")
    ELSE IF file.kind = "unreadable" THEN TipsRaised("OSError")
    ELSE IF file.kind = "undecodable" THEN TipsRaised("UnicodeDecodeError")
    ELSE IF file.kind = "malformed" THEN TipsReturned(default_tips, "default")
    ELSE LET tips_data == Get(file.value)
         IN IF ~tips_data.is_dict THEN TipsReturned(default_tips, "default")
            ELSE IF \E i \in 1..Len(tips_data.items) : ~tips_data.items[i].val.is_list
            THEN TipsReturned(default_tips, "default")
            ELSE TipsReturned(tips_data, "file")

tips_from_file(file) ==
    IF file.kind = "missing" THEN TipsReturned(default_tips, "default")
    ELSE IF file.kind \in {"unreadable", "undecodable"}
    THEN TipsReturned(default_tips, "default")
    ELSE IF file.kind = "malformed" THEN TipsReturned(default_tips, "default")
    ELSE LET tips_data == Get(file.value)
         IN IF ~tips_data.is_dict THEN TipsReturned(default_tips, "default")
            ELSE IF \E i \in 1..Len(tips_data.items) : ~tips_data.items[i].val.is_list
            THEN TipsReturned(default_tips, "default")
            ELSE TipsReturned(tips_data, "file")

\* env is os.getenv('TIPS_JSON_PATH')
load_tips_from_json(json_file_path, env, fs) ==
    LET path == IF json_file_path = None THEN env ELSE json_file_path
    IN IF ~Has(path) \/ Get(path) = ""
       THEN TipsReturned(default_tips, "default")
       ELSE tips_from_file(fs[Get(path)])

\* "1. tip\n2. tip\n..." from position i on
RECURSIVE NumberedTips(_, _)
NumberedTips(tips, i) ==
    IF i > Len(tips) THEN ""
    ELSE NatText(i) \o ". " \o tips[i] \o "\n" \o NumberedTips(tips, i + 1)

\* the resource tips://mcp
get_learning_tips_resource(tips_by_category) ==
    IF ~DictHas(tips_by_category.items, "mcp")
    THEN [ok |-> FALSE, exc |-> "KeyError", arg |-> "mcp", returned |-> None]
    ELSE [ok |-> TRUE, exc |-> "", arg |-> "",
          returned |-> Some("MCP Tips:\n\n"
                            \o NumberedTips(DictGet(tips_by_category.items, "mcp").tips, 1))]

\* ", ".join(keys)
RECURSIVE Join(_)
Join(keys) ==
    IF keys = <<>> THEN ""
    ELSE IF Len(keys) = 1 THEN keys[1]
    ELSE keys[1] \o ", " \o Join(Tail(keys))

\* the resource tips://category/{category}
get_tips_by_category(tips_by_category, category) ==
    LET category_lower == StrMethod("lower", category)
        items == tips_by_category.items
        keys == [i \in 1..Len(items) |-> items[i].key]
    IN IF ~DictHas(items, category_lower)
       THEN "Category '" \o category \o "' not found.\n\nAvailable categories: "
               \o Join(keys)
       ELSE StrMethod("upper", category) \o " Learning Tips:\n\n"
               \o NumberedTips(DictGet(items, category_lower).tips, 1)
               \o "\nOther available categories: "
               \o Join(SelectSeq(keys, LAMBDA cat : cat # category_lower))

(***************************************************************************)
(* SimpleMCPClient.  A method returns what it returns or raises together   *)
(* with the client (self) and the server side (srv) as it leaves them.     *)
(* What the server side does with one request is `reply`:                  *)
(*   "result"       a response whose result is a dict with the listing     *)
(*   "empty"        a response without result, or one that is no dict or   *)
(*                  has no listing                                         *)
(*   "error"        a JSON-RPC error response                              *)
(*   "eof"          no response line                                       *)
(*   "garbage"      a line that is not JSON                                *)
(*   "broken_pipe"  the write to stdin fails                               *)
(***************************************************************************)
SimpleMCPClient == [process |-> None, request_id |-> 0, initialized |-> FALSE]

start_server_resetting_ids(self, srv, popen) ==
    IF popen = "raises" THEN [self |-> self, srv |-> srv, returned |-> FALSE]
    ELSE [self |-> [self EXCEPT !.process = Some(Len(srv.procs) + 1), !.request_id = 0],
          srv |-> [srv EXCEPT !.procs = Append(@, popen)],
          returned |-> popen = "running"]

\* popen: subprocess.Popen raises, or the process is running or has exited
\* when polled
start_server(self, srv, popen) ==
    IF popen = "raises" THEN [self |-> self, srv |-> srv, returned |-> FALSE]
    ELSE [self |-> [self EXCEPT !.process = Some(Len(srv.procs) + 1)],
          srv |-> [srv EXCEPT !.procs = Append(@, popen)],
          returned |-> popen = "running"]

\* _get_next_id and the request written, then the response read
_send_request(self, srv, method, reply) ==
    LET id == self.request_id + 1
        sent == [self EXCEPT !.request_id = id]
        written == [srv EXCEPT !.stdin = Append(@, [id |-> Some(id), method |-> method])]
        raised(s, v, msg) ==
            [self |-> s, srv |-> v, ok |-> FALSE, msg |-> msg, response |-> None]
        returned(error, listing) ==
            [self |-> sent, srv |-> written, ok |-> TRUE, msg |-> "",
             response |-> Some([error |-> error, listing |-> listing])]
    IN IF ~Has(self.process) \/ srv.procs[Get(self.process)] # "running"
       THEN raised(self, srv, "Server not running")
       ELSE CASE reply = "broken_pipe" -> raised(sent, srv, "[Errno 32] Broken pipe")
              [] reply = "eof" -> raised(sent, written, "No response from server")
              [] reply = "garbage" -> raised(sent, written, "Expecting value")
              [] reply = "error" -> returned(Some("JSON-RPC error"), FALSE)
              [] reply = "result" -> returned(None, TRUE)
              [] reply = "empty" -> returned(None, FALSE)

\* notified: the write of the notification succeeds
initialize(self, srv, reply, notified) ==
    LET r == _send_request(self, srv, "initialize", reply)
    IN IF ~r.ok \/ Has(Get(r.response).error) \/ ~notified
       THEN [self |-> r.self, srv |-> r.srv, returned |-> FALSE]
       ELSE [self |-> [r.self EXCEPT !.initialized = TRUE],
             srv |-> [r.srv EXCEPT !.stdin =
                         Append(@, [id |-> None, method |-> "notifications/initialized"])],
             returned |-> TRUE]

list_tools_unguarded(self, srv, method, reply) ==
    LET r == _send_request(self, srv, method, reply)
    IN [self |-> r.self, srv |-> r.srv, ok |-> TRUE, msg |-> "",
        returned |-> Some(IF r.ok /\ Get(r.response).listing THEN <<"entry">> ELSE <<>>)]

\* list_tools, list_resources and list_prompts: the same body on the methods
\* tools/list, resources/list and prompts/list
list_tools(self, srv, method, reply) ==
    LET r == _send_request(self, srv, method, reply)
    IN IF ~self.initialized
       THEN [self |-> self, srv |-> srv, ok |-> FALSE, msg |-> "Client not initialized",
             returned |-> None]
       ELSE [self |-> r.self, srv |-> r.srv, ok |-> TRUE, msg |-> "",
             returned |-> Some(IF r.ok /\ Get(r.response).listing
                               THEN <<"entry">> ELSE <<>>)]

read_resource_without_except(self, srv, method, reply) ==
    LET r == _send_request(self, srv, method, reply)
    IN IF ~self.initialized
       THEN [self |-> self, srv |-> srv, ok |-> FALSE, msg |-> "Client not initialized",
             returned |-> None]
       ELSE [self |-> r.self, srv |-> r.srv, ok |-> r.ok, msg |-> r.msg,
             returned |-> r.response]

\* read_resource, get_prompt and call_tool: the same body on the methods
\* resources/read, prompts/get and tools/call
read_resource(self, srv, method, reply) ==
    LET r == _send_request(self, srv, method, reply)
    IN IF ~self.initialized
       THEN [self |-> self, srv |-> srv, ok |-> FALSE, msg |-> "Client not initialized",
             returned |-> None]
       ELSE [self |-> r.self, srv |-> r.srv, ok |-> TRUE, msg |-> "",
             returned |-> IF r.ok THEN r.response
                          ELSE Some([error |-> Some(r.msg), listing |-> FALSE])]

close_keeping_flag(self, srv, shutdown) ==
    IF ~Has(self.process) THEN [self |-> self, srv |-> srv]
    ELSE [self |-> [self EXCEPT !.process = None],
          srv |-> IF shutdown \in {"exit", "kill"}
                  THEN [srv EXCEPT !.procs[Get(self.process)] = "exited"]
                  ELSE srv]

\* shutdown: the process exits within the timeout ("exit"), or is killed
\* after it ("kill"), or another exception ends the try block ("exception")
close(self, srv, shutdown) ==
    IF ~Has(self.process) THEN [self |-> self, srv |-> srv]
    ELSE [self |-> [self EXCEPT !.process = None, !.initialized = FALSE],
          srv |-> IF shutdown \in {"exit", "kill"}
                  THEN [srv EXCEPT !.procs[Get(self.process)] = "exited"]
                  ELSE srv]

(***************************************************************************)
(* The date tool.  The days the clock can show, as "%Y-%m-%d" writes them, *)
(* in order; an instant is a day, by its position, and a tick of the day.  *)
(***************************************************************************)
Calendar == <<"2024-12-24", "2024-12-25", "2024-12-26">>

\* datetime.datetime.strptime(target_date, "%Y-%m-%d"): midnight of the day,
\* or ValueError
strptime(target_date) ==
    IF \E day \in 1..Len(Calendar) : Calendar[day] = target_date
    THEN Some([day |-> CHOOSE day \in 1..Len(Calendar) : Calendar[day] = target_date,
               tick |-> 0])
    ELSE None

\* today is datetime.datetime.now()
calculate_days_until_date(target_date, today) ==
    LET target == strptime(target_date)
        difference == (Get(target).day - today.day) * TicksPerDay
                         + (Get(target).tick - today.tick)
        days == difference \div TicksPerDay
    IN IF ~Has(target)
       THEN [error |-> Some("Invalid date format. Please use YYYY-MM-DD format (e.g., 2024-12-25)"),
             target_date |-> None, current_date |-> None, days_difference |-> None,
             is_future |-> None, is_past |-> None, is_today |-> None]
       ELSE [error |-> None,
             target_date |-> Some(target_date),
             current_date |-> Some(Calendar[today.day]),
             days_difference |-> Some(days),
             is_future |-> Some(days > 0),
             is_past |-> Some(days < 0),
             is_today |-> Some(days = 0)]

(***************************************************************************)
(* ContentManager: the getters over the Configuration Document.  A section *)
(* that is a dict of lists is the sequence of its [key, val] items; the    *)
(* prompts section is the sequence of its (category, key, definition)      *)
(* entries.                                                                *)
(***************************************************************************)
\* section.get(category, []) on a section that may be absent
CategoryOf(section, category) ==
    IF DictHas(GetOr(section, <<>>), category)
    THEN DictGet(GetOr(section, <<>>), category) ELSE <<>>

\* list(d.keys()): the keys in insertion order
RECURSIVE KeyList(_, _)
KeyList(keys, i) ==
    IF i > Len(keys) THEN <<>>
    ELSE IF \E j \in 1..(i - 1) : keys[j] = keys[i] THEN KeyList(keys, i + 1)
    ELSE <<keys[i]>> \o KeyList(keys, i + 1)

get_greetings(content) == CategoryOf(content.messages, "greetings")

\* `if category:` is false for None and for the empty string
get_tips(content, category) ==
    IF Has(category) /\ Get(category) # ""
    THEN CategoryOf(content.tips, Get(category))
    ELSE CategoryOf(content.tips, "mcp")

get_all_tips(content) == GetOr(content.tips, <<>>)

get_tip_categories(content) ==
    KeyList([i \in 1..Len(GetOr(content.tips, <<>>)) |-> GetOr(content.tips, <<>>)[i].key], 1)

get_messages(content, category) == CategoryOf(content.messages, category)

get_all_messages(content) == GetOr(content.messages, <<>>)

get_prompts(content, category) ==
    IF Has(category) /\ Get(category) # ""
    THEN SelectSeq(GetOr(content.prompts, <<>>),
                   LAMBDA entry : entry.category = Get(category))
    ELSE GetOr(content.prompts, <<>>)

get_prompt_categories(content) ==
    KeyList([i \in 1..Len(GetOr(content.prompts, <<>>)) |->
                GetOr(content.prompts, <<>>)[i].category], 1)

has_category(content, section, category) ==
    CASE section = "tips" -> DictHas(GetOr(content.tips, <<>>), category)
      [] section = "messages" -> DictHas(GetOr(content.messages, <<>>), category)
      [] section = "prompts" ->
            \E i \in 1..Len(GetOr(content.prompts, <<>>)) :
                GetOr(content.prompts, <<>>)[i].category = category
      [] OTHER -> FALSE

\* one getter call: getter(category) or has_category(section, category)
ContentManagerGet(content, getter, section, category) ==
    CASE getter = "get_greetings" -> get_greetings(content)
      [] getter = "get_tips" -> get_tips(content, category)
      [] getter = "get_all_tips" -> get_all_tips(content)
      [] getter = "get_tip_categories" -> get_tip_categories(content)
      [] getter = "get_messages" -> get_messages(content, GetOr(category, ""))
      [] getter = "get_all_messages" -> get_all_messages(content)
      [] getter = "get_prompts" -> get_prompts(content, category)
      [] getter = "get_prompt_categories" -> get_prompt_categories(content)
      [] getter = "has_category" -> has_category(content, section, GetOr(category, ""))

(***************************************************************************)
(* The inputs of the model: prompt definitions, documents, keyword         *)
(* arguments.                                                              *)
(***************************************************************************)
Arg(name, type, required, default) ==
    [name |-> name, type |-> type, required |-> required, default |-> default]

Def(name, template, role, arguments) ==
    [name |-> name, template |-> template, role |-> role, arguments |-> arguments]

Entry(category, key, def) == [category |-> category, key |-> key, def |-> def]

\* "Plan {topic} at {skill_level}": a defaulted argument and a required one
LearningPlan ==
    Def(Some("learning_plan_prompt"),
        Some(<<Lit("Plan "), Named("topic"), Lit(" at "), Named("skill_level")>>),
        None,
        Some(<<Arg("skill_level", Some("string"), None, Some(PyStr("beginner"))),
               Arg("topic", Some("string"), Some(TRUE), None)>>))

\* "{count}{flag}": a number and a boolean, with the defaults 0 and false
TypedPrompt ==
    Def(None,
        Some(<<Named("count"), Named("flag")>>),
        Some("assistant"),
        Some(<<Arg("count", Some("number"), Some(FALSE), Some(PyInt(0))),
               Arg("flag", Some("boolean"), None, Some(PyBool(FALSE)))>>))

\* "Hello {name}! Level: {missing}": a placeholder that is no argument
IncompletePrompt ==
    Def(Some("incomplete_prompt"),
        Some(<<Lit("Hello "), Named("name"), Lit("! Level: "), Named("missing")>>),
        Some("user"),
        Some(<<Arg("name", None, Some(TRUE), None)>>))

\* "{language.upper()} {note}": a method call, and an optional argument
\* without a default
CodeReview ==
    Def(Some("code_review_prompt"),
        Some(<<Method("language", "upper"), Lit(" "), Named("note")>>),
        None,
        Some(<<Arg("language", Some("string"), None, Some(PyStr("python"))),
               Arg("note", Some("string"), Some(FALSE), None)>>))

\* "{tag}|{opt}": the defaults "" and null
NullablePrompt ==
    Def(None,
        Some(<<Named("tag"), Lit("|"), Named("opt")>>),
        None,
        Some(<<Arg("tag", Some("string"), None, Some(PyStr(""))),
               Arg("opt", Some("string"), None, Some(PyNone))>>))

\* "{component_type}: {component_guidance}"
McpDevelopment ==
    Def(None,
        Some(<<Named("component_type"), Lit(": "), Named("component_guidance")>>),
        None,
        Some(<<Arg("component_type", Some("string"), None, Some(PyStr("tool")))>>))

\* "Check {debugging_steps}": an optional error_type without default
DebuggingAssistant ==
    Def(None,
        Some(<<Lit("Check "), Named("debugging_steps")>>),
        None,
        Some(<<Arg("error_type", Some("string"), Some(FALSE), None)>>))

\* "{} {missing}": a positional field before a placeholder that is no argument
PositionalPrompt ==
    Def(None, Some(<<Pos, Lit(" "), Named("missing")>>), None, None)

\* a definition without template
InvalidPrompt == Def(Some("invalid_prompt"), None, None, None)

\* a second definition named learning_plan_prompt
OtherLearningPlan ==
    Def(None, Some(<<Lit("Study "), Named("topic")>>), Some("assistant"),
        Some(<<Arg("topic", Some("string"), None, Some(PyStr("python")))>>))

\* the tips section of a document
Tips ==
    <<Item("mcp", <<"Start with simple tools", "Use the MCP Inspector">>),
      Item("python", <<"Use virtual environments">>)>>

\* a document with the given prompts section; the one without a prompts
\* section has no other section either
Document(entries) ==
    [prompts |-> entries,
     tips |-> IF entries = None THEN None ELSE Some(Tips),
     messages |-> IF entries = None THEN None ELSE Some(<<Item("greetings", <<"Hello {name}!">>),
                                                         Item("farewells", <<>>)>>)]

Documents ==
    { Document(Some(<<Entry("development", "review", CodeReview),
                      Entry("development", "mcp_development_prompt", McpDevelopment),
                      Entry("development", "debugging_assistant_prompt",
                            DebuggingAssistant),
                      Entry("learning", "plan", LearningPlan)>>)),
      Document(Some(<<Entry("test", "typed_prompt", TypedPrompt),
                      Entry("test", "incomplete", IncompletePrompt),
                      Entry("test", "nullable", NullablePrompt)>>)),
      Document(Some(<<Entry("learning", "plan", LearningPlan),
                      Entry("other", "learning_plan_prompt", OtherLearningPlan),
                      Entry("other", "positional", PositionalPrompt)>>)),
      Document(Some(<<Entry("test", "typed_prompt", TypedPrompt),
                      Entry("test", "invalid_prompt", InvalidPrompt),
                      Entry("test", "incomplete", IncompletePrompt)>>)),
      Document(Some(<<>>)),
      Document(None) }

\* the definitions of a document, valid or not
DefsOf(content) == {PromptEntries(content)[i].def : i \in 1..Len(PromptEntries(content))}

\* the paths a caller passes and the files that can be found there
ContentPaths == {default_path, "custom/content.json"}

ContentFiles ==
    {NoJson("missing"), NoJson("undecodable"), NoJson("malformed")} \cup {JsonFile(d) : d \in Documents}

\* the tips files: the path given on the command line, the path in the
\* environment, and what can be found there
TipsPaths == {"tips.json", "env/tips.json"}

TipsValues ==
    { [is_dict |-> FALSE, items |-> <<>>],
      DictOf(<<Item("python", [is_list |-> FALSE, tips |-> <<>>])>>),
      DictOf(<<Item("mcp", ListOf(<<"Start with simple tools">>)),
               Item("docker", [is_list |-> FALSE, tips |-> <<>>])>>),
      DictOf(<<>>),
      DictOf(<<Item("python", ListOf(<<"Use virtual environments">>))>>),
      DictOf(<<Item("mcp", ListOf(<<"Start with simple tools">>)),
               Item("Python", ListOf(<<"Use virtual environments">>))>>),
      DictOf(<<Item("mcp", ListOf(<<"Start with simple tools", "Use the MCP Inspector">>)),
               Item("python", ListOf(<<"Use virtual environments">>))>>) }

TipsFiles ==
    {NoJson("missing"), NoJson("unreadable"), NoJson("undecodable"), NoJson("malformed")}
    \cup {JsonFile(v) : v \in TipsValues}

\* the tips a server serves: what load_tips_from_json can return
ServedTips ==
    {default_tips} \cup {v \in TipsValues :
                            v.is_dict /\ \A i \in 1..Len(v.items) : v.items[i].val.is_list}

\* the names a caller looks up: every name a document gives a prompt, and
\* one no document has
LookupNames ==
    UNION {{PromptName(PromptEntries(content)[i]) : i \in 1..Len(PromptEntries(content))} :
              content \in Documents}
    \cup {"unknown_prompt"}

\* the values a caller supplies
SuppliedValues == {PyStr("resource"), PyInt(5), PyFloat(15), PyBool(TRUE)}

\* a key no definition declares
Undeclared == {"unexpected_arg"}

DeclaredNames(prompt_def) ==
    arg_definitions(GetOr(prompt_def.arguments, <<>>))

\* the keyword arguments of one call: at most MaxKwargs distinct keys, in the
\* caller's order
KwargsFor(prompt_def) ==
    LET items == {Item(k, v) : k \in DeclaredNames(prompt_def) \cup Undeclared,
                               v \in SuppliedValues}
                 \cup {Item(k, PyStr("syntax")) :
                          k \in DeclaredNames(prompt_def)
                                   \cap {"component_type", "error_type"}}
    IN UNION {{kw \in [1..n -> items] : IsDict(kw)} : n \in 0..MaxKwargs}

(***************************************************************************)
(* State.                                                                  *)
(*   content_data        the Configuration Document                       *)
(*   schema              the schema file the validators load               *)
(*   loader              the one JSONPromptLoader: constructed, prompts,   *)
(*                       and whether load_prompts has returned on it (the  *)
(*                       "loaded" state of the cache)                      *)
(*   registered_prompts  PromptRegistry.registered_prompts                 *)
(*   mcp                 the callables the host was given, in order        *)
(*   last                the call in progress and what it returns or       *)
(*                       raises; "idle" once the caller has taken it       *)
(*   calls               the invocations of synthesized prompt functions   *)
(*                       that run at the same time, one per request        *)
(*                       context                                           *)
(*   client              the one SimpleMCPClient: process (the handle of   *)
(*                       the server it started last), request_id,          *)
(*                       initialized                                       *)
(*   server              the server processes the client has started, each *)
(*                       "running" or "exited", and what the client has    *)
(*                       written to their stdin, in order                  *)
(***************************************************************************)
NoDef == Def(None, None, None, None)

\* the request contexts, and one invocation of prompt_function in a context:
\* where it stands and its locals
Contexts == 1..MaxInFlight

Invocation(pc, prompt_name, prompt_def, kwargs, validated, processed_args, content, result) ==
    [pc |-> pc, prompt_name |-> prompt_name, prompt_def |-> prompt_def,
     kwargs |-> kwargs, validated |-> validated, processed_args |-> processed_args,
     content |-> content, result |-> result]

\* no invocation in flight
NoCalls ==
    [c \in Contexts |-> Invocation("idle", "", NoDef, <<>>, <<>>, <<>>, <<>>, <<>>)]

\* processed_args = self.validator.validate_arguments(arg_definitions, kwargs)
after_validate_shared(cs, c) ==
    LET validated == validate_arguments(GetOr(cs[c].prompt_def.arguments, <<>>),
                                        cs[c].kwargs)
    IN IF ~validated.ok
       THEN [cs EXCEPT ![c].pc = "done", ![c].validated = Some(validated),
                       ![c].result = Some(Outcome(validated, validated.exc,
                                                  validated.arg, "", <<>>))]
       ELSE [d \in Contexts |->
                IF d = c
                THEN [cs[c] EXCEPT !.pc = "process", !.validated = Some(validated),
                                   !.processed_args = validated.args]
                ELSE IF cs[d].pc \in {"process", "format"}
                THEN [cs[d] EXCEPT !.processed_args = validated.args]
                ELSE cs[d]]

after_validate(cs, c) ==
    LET validated == validate_arguments(GetOr(cs[c].prompt_def.arguments, <<>>),
                                        cs[c].kwargs)
    IN IF ~validated.ok
       THEN [cs EXCEPT ![c].pc = "done", ![c].validated = Some(validated),
                       ![c].result = Some(Outcome(validated, validated.exc,
                                                  validated.arg, "", <<>>))]
       ELSE [cs EXCEPT ![c].pc = "process", ![c].validated = Some(validated),
                       ![c].processed_args = validated.args]

\* the name-specific processing of processed_args
after_process(cs, c) ==
    [cs EXCEPT ![c].pc = "format",
               ![c].processed_args =
                   special_processing(cs[c].prompt_name, cs[c].processed_args)]

\* template = prompt_def["template"] and the try block
after_format(cs, c) ==
    LET validated == Get(cs[c].validated)
        content == formatted_content(Get(cs[c].prompt_def.template), cs[c].processed_args)
    IN IF ~Has(cs[c].prompt_def.template)
       THEN [cs EXCEPT ![c].pc = "done",
                       ![c].result = Some(Outcome(validated, "KeyError", "template",
                                                  "", <<>>))]
       ELSE IF ~content.ok
       THEN [cs EXCEPT ![c].pc = "done",
                       ![c].result = Some(Outcome(validated, content.exc, content.arg,
                                                  "", <<>>))]
       ELSE [cs EXCEPT ![c].pc = "return", ![c].content = Some(content)]

\* role = prompt_def.get("role", "user"); return [{...}]
after_return(cs, c) ==
    LET content == Get(cs[c].content)
    IN [cs EXCEPT ![c].pc = "done",
                  ![c].result =
                      Some(Outcome(Get(cs[c].validated), "", "", content.warning,
                                   <<Message(message_role(cs[c].prompt_def),
                                             content.text)>>))]

Call(op, prompt_name, prompt_def, kwargs, ok, exc, msg, arg, args, warning, messages, returned) ==
    [op |-> op, content |-> <<>>, input |-> <<>>, load_runs |-> 0,
     prompt_name |-> prompt_name,
     prompt_def |-> prompt_def, kwargs |-> kwargs, ok |-> ok, exc |-> exc, msg |-> msg,
     arg |-> arg, args |-> args, warning |-> warning, messages |-> messages,
     returned |-> returned]

Idle ==
    Call("idle", "", NoDef, <<>>, TRUE, "", "", "", <<>>, "", <<>>, <<>>)

Init ==
    /\ content_data \in Documents
    /\ schema \in Schemas
    /\ loader = [constructed |-> FALSE, prompts |-> <<>>, loaded |-> FALSE]
    /\ registered_prompts = <<>>
    /\ mcp = <<>>
    /\ last = Idle
    /\ calls = NoCalls
    /\ client = SimpleMCPClient
    /\ server = [procs |-> <<>>, stdin |-> <<>>]

\* loader = JSONPromptLoader(content_data, validator)
NewLoader ==
    LET checked == validate_content(schema, content_data)
    IN /\ last.op = "idle"
       /\ ~loader.constructed
       /\ loader' = IF checked.ok
                    THEN [constructed |-> TRUE, prompts |-> <<>>, loaded |-> FALSE]
                    ELSE loader
       /\ last' = Call("JSONPromptLoader", "", NoDef, <<>>, checked.ok,
                       checked.exc, checked.msg, "", <<>>, "", <<>>, <<>>)
       /\ UNCHANGED <<content_data, schema, registered_prompts, mcp, calls, client, server>>

\* loader.load_prompts()
LoadPrompts ==
    LET r == load_prompts(content_data, loader.prompts)
    IN /\ last.op = "idle"
       /\ loader.constructed
       /\ loader' = [loader EXCEPT !.prompts = r.prompts,
                                   !.loaded = loader.loaded \/ r.ok]
       /\ last' = Call("load_prompts", "", NoDef, <<>>, r.ok, r.exc, "",
                       "", <<>>, "", <<>>, r.returned)
       /\ UNCHANGED <<content_data, schema, registered_prompts, mcp, calls, client, server>>

\* validator.validate_arguments(prompt_def["arguments"], kwargs)
ValidateArguments ==
    /\ last.op = "idle"
    /\ \E prompt_def \in DefsOf(content_data) :
      \E kwargs \in KwargsFor(prompt_def) :
        LET r == validate_arguments(GetOr(prompt_def.arguments, <<>>), kwargs)
        IN /\ last' = Call("validate_arguments", "", prompt_def, kwargs,
                           r.ok, r.exc, r.msg, r.arg, r.args, "", <<>>, <<>>)
           /\ UNCHANGED <<content_data, schema, loader, registered_prompts, mcp, calls,
                          client, server>>

\* the callables a caller can hold: those create_prompt_function makes from
\* the loaded prompts, and those the host was given
Callables ==
    {create_prompt_function(loader.prompts[i].key, loader.prompts[i].val) :
        i \in 1..Len(loader.prompts)}
    \cup {create_prompt_function(mcp[i].name, mcp[i].prompt_def) : i \in 1..Len(mcp)}

\* func(**kwargs) on a synthesized prompt function
CallPromptFunction ==
    /\ last.op = "idle"
    /\ \E func \in Callables :
      \E kwargs \in KwargsFor(func.prompt_def) :
        LET r == prompt_function(func.name, func.prompt_def, kwargs)
        IN /\ last' = Call("prompt_function", func.name, func.prompt_def, kwargs,
                           r.ok, r.exc, r.msg, r.arg, r.args, r.warning, r.messages,
                           <<>>)
           /\ content_data' = document_after_call(content_data, func.name,
                                                  func.prompt_def, kwargs)
           /\ UNCHANGED <<schema, loader, registered_prompts, mcp, calls, client, server>>

\* loader.get_prompt_names()
GetPromptNames ==
    LET r == get_prompt_names(content_data, loader.prompts)
    IN /\ last.op = "idle"
       /\ loader.constructed
       /\ loader' = [loader EXCEPT !.prompts = r.prompts,
                                   !.loaded = loader.loaded \/ (r.load_runs > 0 /\ r.ok)]
       /\ last' = [Call("get_prompt_names", "", NoDef, <<>>, r.ok, r.exc, r.msg, "",
                        <<>>, "", <<>>, r.returned)
                      EXCEPT !.load_runs = r.load_runs]
       /\ UNCHANGED <<content_data, schema, registered_prompts, mcp, calls, client, server>>

\* loader.get_prompt_definition(prompt_name)
LoaderGetPromptDefinition ==
    /\ last.op = "idle"
    /\ loader.constructed
    /\ \E prompt_name \in LookupNames :
      LET r == JSONPromptLoader_get_prompt_definition(content_data, loader.prompts,
                                                      prompt_name)
      IN /\ loader' = [loader EXCEPT !.prompts = r.prompts,
                                     !.loaded = loader.loaded
                                                   \/ (r.load_runs > 0 /\ r.exc # "ValidationError")]
         /\ last' = [Call("JSONPromptLoader.get_prompt_definition", prompt_name, NoDef,
                          <<>>, r.ok, r.exc, r.msg, "", <<>>, "", <<>>, r.returned)
                        EXCEPT !.load_runs = r.load_runs]
         /\ UNCHANGED <<content_data, schema, registered_prompts, mcp, calls, client, server>>

\* loader.create_prompt_function(prompt_name, prompt_def) on a loaded prompt
CreatePromptFunction ==
    /\ last.op = "idle"
    /\ \E i \in 1..Len(loader.prompts) :
        /\ last' = Call("create_prompt_function", loader.prompts[i].key,
                        loader.prompts[i].val, <<>>, TRUE, "", "", "", <<>>, "", <<>>,
                        Some(create_prompt_function(loader.prompts[i].key,
                                                    loader.prompts[i].val)))
        /\ UNCHANGED <<content_data, schema, loader, registered_prompts, mcp, calls,
                       client, server>>

\* ContentManager(content_data).<getter>(...)
ContentManagerGetter ==
    /\ last.op = "idle"
    /\ \E getter \in {"get_greetings", "get_tips", "get_all_tips", "get_tip_categories",
                      "get_messages", "get_all_messages", "get_prompts",
                      "get_prompt_categories", "has_category"},
          section \in {"tips", "messages", "prompts", "resources"},
          category \in {None, Some(""), Some("mcp"), Some("greetings"), Some("test")} :
        /\ getter # "has_category" => section = "tips"
        /\ getter \in {"get_greetings", "get_all_tips", "get_tip_categories",
                       "get_all_messages", "get_prompt_categories"} => category = None
        /\ last' = [Call(getter, "", NoDef, <<>>, TRUE, "", "", "", <<>>, "", <<>>,
                         Some(ContentManagerGet(content_data, getter, section, category)))
                       EXCEPT !.input = [section |-> section, category |-> category]]
        /\ UNCHANGED <<content_data, schema, loader, registered_prompts, mcp, calls,
                       client, server>>

\* registry.register_prompts_from_json(mcp, content)
RegisterPromptsFromJson ==
    /\ last.op = "idle"
    /\ Len(mcp) < MaxHostPrompts
    /\ \E content \in Documents :
      LET r == register_prompts_from_json(schema, mcp, registered_prompts, content)
      IN /\ mcp' = r.mcp
         /\ registered_prompts' = r.registered_prompts
         /\ last' = [Call("register_prompts_from_json", "", NoDef, <<>>, r.ok, r.exc,
                              "", "", <<>>, "", <<>>, <<>>)
                         EXCEPT !.content = PromptEntries(content)]
         /\ UNCHANGED <<content_data, schema, loader, calls, client, server>>

\* registry.get_registered_prompts()
GetRegisteredPrompts ==
    LET r == get_registered_prompts(registered_prompts)
    IN /\ last.op = "idle"
       /\ registered_prompts' = r.registered_prompts
       /\ last' = Call("get_registered_prompts", "", NoDef, <<>>, r.ok, r.exc, r.msg,
                       "", <<>>, "", <<>>, r.returned)
       /\ UNCHANGED <<content_data, schema, loader, mcp, calls, client, server>>

\* registry.get_prompt_definition(prompt_name)
RegistryGetPromptDefinition ==
    /\ last.op = "idle"
    /\ \E prompt_name \in LookupNames :
      LET r == PromptRegistry_get_prompt_definition(registered_prompts, prompt_name)
      IN /\ registered_prompts' = r.registered_prompts
         /\ last' = Call("PromptRegistry.get_prompt_definition", prompt_name, NoDef,
                         <<>>, r.ok, r.exc, r.msg, "", <<>>, "", <<>>, r.returned)
         /\ UNCHANGED <<content_data, schema, loader, mcp, calls, client, server>>

\* load_content_from_json(json_file_path) with the files as they are on disk;
\* the files are loaded when the process starts, before a loader or a
\* registration exists
LoadContentFromJson ==
    /\ last.op = "idle"
    /\ ~loader.constructed /\ mcp = <<>>
    /\ \E json_file_path \in {None} \cup {Some(p) : p \in ContentPaths \ {default_path}} :
      \E fs \in [ContentPaths -> ContentFiles] :
        LET r == load_content_from_json(json_file_path, fs, schema)
        IN /\ last' = [Call("load_content_from_json", "", NoDef, <<>>, r.ok, r.exc,
                            r.msg, "", <<>>, "", <<>>, r.returned)
                          EXCEPT !.input = [json_file_path |-> json_file_path, fs |-> fs]]
           /\ UNCHANGED <<content_data, schema, loader, registered_prompts, mcp, calls,
                          client, server>>

\* the keyword arguments of the invocations that run at the same time: none,
\* or one declared key with a string
ConcurrentKwargs(prompt_def) ==
    {<<>>} \cup {<<Item(k, PyStr("resource"))>> : k \in DeclaredNames(prompt_def)}

\* a request context calls a synthesized prompt function
Invoke(c) ==
    /\ calls[c].pc = "idle"
    /\ \E func \in Callables :
      \E kwargs \in ConcurrentKwargs(func.prompt_def) :
        calls' = [calls EXCEPT ![c] = Invocation("validate", func.name, func.prompt_def,
                                                 kwargs, <<>>, <<>>, <<>>, <<>>)]
    /\ UNCHANGED <<content_data, schema, loader, registered_prompts, mcp, last, client, server>>

StepValidate(c) ==
    /\ calls[c].pc = "validate"
    /\ calls' = after_validate(calls, c)
    /\ UNCHANGED <<content_data, schema, loader, registered_prompts, mcp, last, client, server>>

StepProcess(c) ==
    /\ calls[c].pc = "process"
    /\ calls' = after_process(calls, c)
    /\ UNCHANGED <<content_data, schema, loader, registered_prompts, mcp, last, client, server>>

StepFormat(c) ==
    /\ calls[c].pc = "format"
    /\ calls' = after_format(calls, c)
    /\ UNCHANGED <<content_data, schema, loader, registered_prompts, mcp, last, client, server>>

StepReturn(c) ==
    /\ calls[c].pc = "return"
    /\ calls' = after_return(calls, c)
    /\ UNCHANGED <<content_data, schema, loader, registered_prompts, mcp, last, client, server>>

\* the context takes what its invocation returned or raised
Complete(c) ==
    /\ calls[c].pc = "done"
    /\ calls' = [calls EXCEPT ![c] = NoCalls[c]]
    /\ UNCHANGED <<content_data, schema, loader, registered_prompts, mcp, last, client, server>>

\* load_tips_from_json(json_file_path) with the environment and the files as
\* they are
LoadTipsFromJson ==
    /\ last.op = "idle"
    /\ ~loader.constructed /\ mcp = <<>>
    /\ \E json_file_path \in {None, Some(""), Some("tips.json")},
          env \in {None, Some(""), Some("env/tips.json")} :
      \E fs \in [TipsPaths -> TipsFiles] :
        LET r == load_tips_from_json(json_file_path, env, fs)
        IN /\ last' = [Call("load_tips_from_json", "", NoDef, <<>>, r.ok, r.exc, "",
                            "", <<>>, "", <<>>, r.returned)
                          EXCEPT !.input = [json_file_path |-> json_file_path,
                                            env |-> env, fs |-> fs]]
           /\ UNCHANGED <<content_data, schema, loader, registered_prompts, mcp, calls,
                          client, server>>

\* a client reads the resource tips://mcp
ReadTipsResource ==
    /\ last.op = "idle"
    /\ \E tips_by_category \in ServedTips :
        LET r == get_learning_tips_resource(tips_by_category)
        IN /\ last' = [Call("get_learning_tips_resource", "", NoDef, <<>>, r.ok, r.exc,
                            "", r.arg, <<>>, "", <<>>, r.returned)
                          EXCEPT !.input = tips_by_category]
           /\ UNCHANGED <<content_data, schema, loader, registered_prompts, mcp, calls,
                          client, server>>

\* a client reads the resource tips://category/{category}
ReadTipsCategory ==
    /\ last.op = "idle"
    /\ \E tips_by_category \in ServedTips,
          category \in {"mcp", "MCP", "python", "PYTHON", "Python", "java"} :
        /\ last' = [Call("get_tips_by_category", "", NoDef, <<>>, TRUE, "", "", "",
                         <<>>, "", <<>>,
                         Some(get_tips_by_category(tips_by_category, category)))
                       EXCEPT !.input = [tips_by_category |-> tips_by_category,
                                         category |-> category]]
        /\ UNCHANGED <<content_data, schema, loader, registered_prompts, mcp, calls,
                       client, server>>

\* a client calls the tool calculate_days_until_date at some instant
CalculateDaysUntilDate ==
    /\ last.op = "idle"
    /\ \E target_date \in {Calendar[day] : day \in 1..Len(Calendar)}
                            \cup {"25-12-2024", "2024-13-01"},
          day \in 1..Len(Calendar), tick \in 0..(TicksPerDay - 1) :
        LET today == [day |-> day, tick |-> tick]
        IN /\ last' = [Call("calculate_days_until_date", "", NoDef, <<>>, TRUE, "", "",
                            "", <<>>, "", <<>>,
                            Some(calculate_days_until_date(target_date, today)))
                          EXCEPT !.input = [target_date |-> target_date,
                                            today |-> today]]
           /\ UNCHANGED <<content_data, schema, loader, registered_prompts, mcp, calls,
                          client, server>>

\* the caller takes what the call returned or raised
Return ==
    /\ last.op # "idle"
    /\ last' = Idle
    /\ UNCHANGED <<content_data, schema, loader, registered_prompts, mcp, calls,
                   client, server>>

Next ==
    \/ NewLoader
    \/ LoadPrompts
    \/ GetPromptNames
    \/ LoaderGetPromptDefinition
    \/ ValidateArguments
    \/ CallPromptFunction
    \/ CreatePromptFunction
    \/ ContentManagerGetter
    \/ RegisterPromptsFromJson
    \/ GetRegisteredPrompts
    \/ RegistryGetPromptDefinition
    \/ LoadContentFromJson
    \/ LoadTipsFromJson
    \/ ReadTipsResource
    \/ ReadTipsCategory
    \/ CalculateDaysUntilDate
    \/ Return

Spec == Init /\ [][Next]_vars

(***************************************************************************)
(* Request serving: the document is loaded and registered (the state after *)
(* NewLoader, LoadPrompts and RegisterPromptsFromJson on content_data),    *)
(* and the request contexts invoke the synthesized functions, their steps  *)
(* interleaved.                                                            *)
(***************************************************************************)
ServingLoader(content) ==
    [constructed |-> TRUE, prompts |-> load_prompts(content, <<>>).prompts,
     loaded |-> TRUE]

ServingRegistry(sch, content) == register_prompts_from_json(sch, <<>>, <<>>, content)

ServingInit ==
    /\ content_data \in Documents
    /\ schema \in Schemas
    /\ validate_content(schema, content_data).ok
    /\ load_prompts(content_data, <<>>).ok
    /\ loader = ServingLoader(content_data)
    /\ registered_prompts = ServingRegistry(schema, content_data).registered_prompts
    /\ mcp = ServingRegistry(schema, content_data).mcp
    /\ last = Idle
    /\ calls = NoCalls
    /\ client = SimpleMCPClient
    /\ server = [procs |-> <<>>, stdin |-> <<>>]

ServingNext ==
    \/ \E c \in Contexts : Invoke(c)
    \/ \E c \in Contexts : StepValidate(c)
    \/ \E c \in Contexts : StepProcess(c)
    \/ \E c \in Contexts : StepFormat(c)
    \/ \E c \in Contexts : StepReturn(c)
    \/ \E c \in Contexts : Complete(c)

ServingSpec == ServingInit /\ [][ServingNext]_vars

(***************************************************************************)
(* The client: any sequence of calls on one SimpleMCPClient, the servers   *)
(* it starts exiting when they will.                                       *)
(***************************************************************************)
StartServer ==
    /\ last.op = "idle"
    /\ Len(server.procs) < MaxServers
    /\ \E popen \in {"running", "exited", "raises"} :
        LET r == start_server(client, server, popen)
        IN /\ client' = r.self
           /\ server' = r.srv
           /\ last' = [op |-> "start_server", method |-> "", reply |-> popen,
                       ok |-> TRUE, msg |-> "", returned |-> Some(r.returned)]
    /\ UNCHANGED <<content_data, schema, loader, registered_prompts, mcp, calls>>

Initialize ==
    /\ last.op = "idle"
    /\ client.request_id < MaxRequests
    /\ \E reply \in {"result", "empty", "error", "eof", "garbage", "broken_pipe"},
          notified \in BOOLEAN :
        LET r == initialize(client, server, reply, notified)
        IN /\ client' = r.self
           /\ server' = r.srv
           /\ last' = [op |-> "initialize", method |-> "initialize", reply |-> reply,
                       ok |-> TRUE, msg |-> "", returned |-> Some(r.returned)]
    /\ UNCHANGED <<content_data, schema, loader, registered_prompts, mcp, calls>>

ListTools ==
    /\ last.op = "idle"
    /\ client.request_id < MaxRequests
    /\ \E call \in {<<"list_tools", "tools/list">>, <<"list_resources", "resources/list">>,
                   <<"list_prompts", "prompts/list">>},
          reply \in {"result", "empty", "error", "eof", "garbage", "broken_pipe"} :
        LET r == list_tools(client, server, call[2], reply)
        IN /\ client' = r.self
           /\ server' = r.srv
           /\ last' = [op |-> call[1], method |-> call[2], reply |-> reply,
                       ok |-> r.ok, msg |-> r.msg, returned |-> r.returned]
    /\ UNCHANGED <<content_data, schema, loader, registered_prompts, mcp, calls>>

ReadResource ==
    /\ last.op = "idle"
    /\ client.request_id < MaxRequests
    /\ \E call \in {<<"read_resource", "resources/read">>, <<"get_prompt", "prompts/get">>,
                   <<"call_tool", "tools/call">>},
          reply \in {"result", "empty", "error", "eof", "garbage", "broken_pipe"} :
        LET r == read_resource(client, server, call[2], reply)
        IN /\ client' = r.self
           /\ server' = r.srv
           /\ last' = [op |-> call[1], method |-> call[2], reply |-> reply,
                       ok |-> r.ok, msg |-> r.msg, returned |-> r.returned]
    /\ UNCHANGED <<content_data, schema, loader, registered_prompts, mcp, calls>>

Close ==
    /\ last.op = "idle"
    /\ \E shutdown \in {"exit", "kill", "exception"} :
        LET r == close(client, server, shutdown)
        IN /\ client' = r.self
           /\ server' = r.srv
           /\ last' = [op |-> "close", method |-> "", reply |-> shutdown,
                       ok |-> TRUE, msg |-> "", returned |-> None]
    /\ UNCHANGED <<content_data, schema, loader, registered_prompts, mcp, calls>>

\* a server process ends by itself
ServerExits ==
    /\ \E pid \in 1..Len(server.procs) :
        /\ server.procs[pid] = "running"
        /\ server' = [server EXCEPT !.procs[pid] = "exited"]
    /\ UNCHANGED <<content_data, schema, loader, registered_prompts, mcp, last, calls,
                   client>>

ClientInit ==
    /\ content_data = Document(None)
    /\ schema = [root_refs_prompt |-> TRUE]
    /\ loader = [constructed |-> FALSE, prompts |-> <<>>, loaded |-> FALSE]
    /\ registered_prompts = <<>>
    /\ mcp = <<>>
    /\ last = Idle
    /\ calls = NoCalls
    /\ client = SimpleMCPClient
    /\ server = [procs |-> <<>>, stdin |-> <<>>]

ClientNext ==
    \/ StartServer
    \/ Initialize
    \/ ListTools
    \/ ReadResource
    \/ Close
    \/ ServerExits
    \/ Return

ClientSpec == ClientInit /\ [][ClientNext]_vars

(***************************************************************************)
(* Properties.                                                             *)
(***************************************************************************)
\* the calls that run validate_arguments on last.kwargs
ValidatesArguments == last.op \in {"validate_arguments", "prompt_function"}

DeclaredArgs == GetOr(last.prompt_def.arguments, <<>>)

SuppliedKeys == DictKeys(last.kwargs)

OnlyDeclaredKeys == SuppliedKeys \subseteq DeclaredNames(last.prompt_def)

\* the positions of the declared arguments that are required and not supplied
OmittedRequired ==
    {i \in 1..Len(DeclaredArgs) :
        /\ Has(DeclaredArgs[i].required) /\ Get(DeclaredArgs[i].required)
        /\ DeclaredArgs[i].name \notin SuppliedKeys}

\* the kinds of value each declared type stands for
KindsOf(declared_type) ==
    CASE declared_type = "string" -> {"str"}
      [] declared_type = "number" -> {"int", "float"}
      [] declared_type = "boolean" -> {"bool"}
      [] OTHER -> {"str", "int", "float", "bool", "NoneType"}

DeclaredType(arg) == IF Has(arg.type) THEN Get(arg.type) ELSE "string"

\* the positions of the declared arguments supplied with a value of a kind
\* the declared type does not stand for
WronglyTyped ==
    {i \in 1..Len(DeclaredArgs) :
        /\ DeclaredArgs[i].name \in SuppliedKeys
        /\ DictGet(last.kwargs, DeclaredArgs[i].name).k
              \notin KindsOf(DeclaredType(DeclaredArgs[i]))}

\* the positions supplied with a value the isinstance checks of the code
\* refuse: as WronglyTyped, but a bool passes for a number
RefusedByTypeCheck ==
    {i \in WronglyTyped :
        ~(DeclaredType(DeclaredArgs[i]) = "number"
          /\ DictGet(last.kwargs, DeclaredArgs[i].name).k = "bool")}

\* C1: a call whose keyword arguments contain a key the definition does not
\* declare fails with ValueError, whatever the other keys are, and yields
\* neither a resolved mapping nor a message.
C1_ClosedArgumentSurface ==
    (ValidatesArguments /\ ~OnlyDeclaredKeys)
        => /\ ~last.ok
           /\ last.exc = "ValueError"
           /\ last.arg \in SuppliedKeys \ DeclaredNames(last.prompt_def)
           /\ last.msg = "Unknown argument: " \o last.arg
           /\ last.args = <<>>
           /\ last.messages = <<>>

\* an undeclared key next to the required argument, correctly typed
C1_Witness ==
    /\ last.op = "validate_arguments"
    /\ last.prompt_def = LearningPlan
    /\ last.kwargs = <<Item("topic", PyStr("resource")),
                       Item("unexpected_arg", PyStr("resource"))>>
    /\ ~last.ok

\* C2 as stated: a call of a synthesized callable with declared keys only
\* that omits a required argument fails with an error naming an omitted
\* required argument, and produces no message.
C2_Original ==
    (last.op = "prompt_function" /\ OnlyDeclaredKeys /\ OmittedRequired # {})
        => /\ ~last.ok
           /\ last.messages = <<>>
           /\ \E i \in OmittedRequired : last.arg = DeclaredArgs[i].name

\* C2 amended: such a call fails with ValueError and produces no message; the
\* error is that of the first declared argument that fails: it names the
\* first omitted required argument, unless a value supplied for an argument
\* declared before it is refused by the type check, and then it names that
\* argument.
C2_RequiredArgumentEnforced ==
    (last.op = "prompt_function" /\ OnlyDeclaredKeys /\ OmittedRequired # {})
        => LET first == Min(OmittedRequired \cup RefusedByTypeCheck)
           IN /\ ~last.ok
              /\ last.exc = "ValueError"
              /\ last.messages = <<>>
              /\ last.arg = DeclaredArgs[first].name
              /\ first \in OmittedRequired
                    => last.msg = "Required argument missing: " \o DeclaredArgs[first].name

\* the required argument omitted, nothing else wrong
C2_Witness ==
    /\ last.op = "prompt_function"
    /\ last.prompt_def = LearningPlan
    /\ last.kwargs = <<Item("skill_level", PyStr("resource"))>>
    /\ last.msg = "Required argument missing: topic"

\* C4 as stated: a value supplied for a declared argument is refused when its
\* kind is not the one the declared type stands for (text for string, integer
\* or floating value for number, boolean for boolean), with an error naming
\* such an argument.
C4_Original ==
    (ValidatesArguments /\ OnlyDeclaredKeys /\ WronglyTyped # {})
        => /\ ~last.ok
           /\ last.exc = "ValueError"
           /\ \E i \in WronglyTyped : last.arg = DeclaredArgs[i].name

\* the declared arguments that end up in the resolved mapping when a default
\* counts as present under `present`
ResolvedNames(present(_)) ==
    {DeclaredArgs[i].name : i \in {j \in 1..Len(DeclaredArgs) :
        \/ DeclaredArgs[j].name \in SuppliedKeys
        \/ present(DeclaredArgs[j].default)}}

AnyDefault(default) == Has(default)
NonNullDefault(default) == Has(default) /\ Get(default) # PyNone

\* the mapping holds, for each of its keys, the supplied value, else the default
ResolvedValues(args) ==
    /\ IsDict(args)
    /\ \A i \in 1..Len(DeclaredArgs) :
          LET arg == DeclaredArgs[i]
          IN DictHas(args, arg.name)
                => DictGet(args, arg.name) =
                      IF arg.name \in SuppliedKeys THEN DictGet(last.kwargs, arg.name)
                      ELSE Get(arg.default)

\* a template of literal text and {name} placeholders only
PlainTemplate(template) ==
    \A i \in 1..Len(template) : template[i].t \in {"lit", "named"}

PlaceholderNames(template) ==
    {template[i].a : i \in {j \in 1..Len(template) : template[j].t = "named"}}

\* the template with each {name} replaced by the text of args[name]
RECURSIVE Substituted(_, _)
Substituted(template, args) ==
    IF template = <<>> THEN ""
    ELSE (IF Head(template).t = "named"
          THEN PyFormat(DictGet(args, Head(template).a))
          ELSE TokenText(Head(template)))
         \o Substituted(Tail(template), args)

\* the calls of a callable whose name gets no name-specific processing
PlainCall ==
    /\ last.op = "prompt_function"
    /\ ~Contains(last.prompt_name, "mcp_development_prompt")
    /\ ~Contains(last.prompt_name, "debugging_assistant_prompt")

\* the argument check lets the keyword arguments of the call through
ValidationPasses ==
    OnlyDeclaredKeys /\ OmittedRequired = {} /\ RefusedByTypeCheck = {}

ResolvedName(entry) == IF Has(entry.def.name) THEN Get(entry.def.name) ELSE entry.key

\* the positions of the entries of the document filed under `name`
EntriesNamed(name) ==
    {i \in 1..Len(PromptEntries(content_data)) :
        ResolvedName(PromptEntries(content_data)[i]) = name}

Max(S) == CHOOSE x \in S : \A y \in S : x >= y

LoadSucceeded == last.op = "load_prompts" /\ last.ok

\* C5 as stated: the mapping is keyed by `name` when present, else by the
\* dictionary key, and a definition whose name differs from its key is
\* reachable under its name and not under its key.
C5_Original ==
    LoadSucceeded
        => \A i \in 1..Len(PromptEntries(content_data)) :
              LET entry == PromptEntries(content_data)[i]
              IN /\ DictHas(last.returned, ResolvedName(entry))
                 /\ DictGet(last.returned, ResolvedName(entry)) = entry.def
                 /\ ResolvedName(entry) # entry.key
                       => ~(DictHas(last.returned, entry.key)
                            /\ DictGet(last.returned, entry.key) = entry.def)

\* C5 amended: the keys of the mapping are the names the definitions resolve
\* to (`name` when present, else the dictionary key), and each holds the last
\* definition, in iteration order, that resolves to it; so a definition whose
\* name differs from its key is never filed under its key, and is reachable
\* under its name unless a later definition resolves to the same name.
C5_NamePrecedence ==
    LoadSucceeded
        => /\ IsDict(last.returned)
           /\ DictKeys(last.returned) =
                 {ResolvedName(PromptEntries(content_data)[i]) :
                     i \in 1..Len(PromptEntries(content_data))}
           /\ \A name \in DictKeys(last.returned) :
                 DictGet(last.returned, name) =
                    PromptEntries(content_data)[Max(EntriesNamed(name))].def
           /\ loader.prompts = last.returned

\* a definition keyed "review" and named code_review_prompt is loaded
C5_Witness ==
    /\ LoadSucceeded
    /\ \E i \in 1..Len(PromptEntries(content_data)) :
          /\ PromptEntries(content_data)[i] = Entry("development", "review", CodeReview)
          /\ DictGet(last.returned, "code_review_prompt") = CodeReview
          /\ ~DictHas(last.returned, "review")

\* the arguments the template is formatted with
ResolvedArguments == special_processing(last.prompt_name, last.args)

CalledTemplate == Get(last.prompt_def.template)

\* a placeholder whose name is not among the arguments
MissingName(tok, args) == tok.t \in {"named", "method"} /\ ~DictHas(args, tok.a)

\* a piece that neither the method-call step nor str.format can render
Unrenderable(tok, args) ==
    \/ MissingName(tok, args)
    \/ tok.t = "method"
          /\ ~(isinstance(DictGet(args, tok.a), {"str"})
               /\ tok.m \in {"upper", "lower", "title", "capitalize"})
    \/ tok.t \in {"pos", "brace"}

UnrenderablePieces ==
    {i \in 1..Len(CalledTemplate) : Unrenderable(CalledTemplate[i], ResolvedArguments)}

CallValidated ==
    last.op = "prompt_function" /\ ValidationPasses /\ Has(last.prompt_def.template)

C7_Original ==
    (last.op = "prompt_function" /\ last.ok
     /\ \E i \in 1..Len(CalledTemplate) : CalledTemplate[i].t = "method")
        => last.messages[1].content =
              IF last.warning # "" THEN TemplateText(CalledTemplate)
              ELSE Substituted(CalledTemplate, ResolvedArguments)

\* C8: a call of a synthesized callable that returns, on the substituted and
\* on the raw-template path alike, returns exactly one message, whose role is
\* the definition's role, or "user" when it has none; a call that raises
\* returns no message.
C8_SingleMessageWithRole ==
    last.op = "prompt_function"
        => IF last.ok
           THEN /\ Len(last.messages) = 1
                /\ last.messages[1].role =
                      IF Has(last.prompt_def.role) THEN Get(last.prompt_def.role)
                      ELSE "user"
           ELSE last.messages = <<>>

\* the raw-template path of a definition without role
C8_Witness ==
    /\ last.op = "prompt_function"
    /\ last.prompt_def = NullablePrompt
    /\ last.warning # ""
    /\ last.messages = <<Message("user", "{tag}|{opt}")>>

InvalidDefinitions(entries) ==
    {i \in 1..Len(entries) : ~PromptSchemaOk(entries[i].def)}

\* C9: a load_prompts call on a document with a definition that fails
\* validate_prompt raises ValidationError, returns nothing and leaves the
\* loader (its cached mapping included) as it was.
C9_LoadAbortsOnInvalidDefinition ==
    [][(last'.op = "load_prompts" /\ InvalidDefinitions(PromptEntries(content_data)) # {})
          => /\ ~last'.ok
             /\ last'.exc = "ValidationError"
             /\ last'.returned = <<>>
             /\ loader' = loader]_vars

\* load_prompts has failed on a document whose first definition is valid
C9_Witness ==
    /\ last.op = "load_prompts"
    /\ ~last.ok
    /\ 1 \notin InvalidDefinitions(PromptEntries(content_data))
    /\ loader = [constructed |-> TRUE, prompts |-> <<>>, loaded |-> FALSE]

\* C10: register_prompts_from_json on a document with an invalid definition
\* raises; the host is given no callable and the registry's table is what it
\* was, wherever the invalid definition stands.
C10_RegistrationAllOrNothing ==
    [][(last'.op = "register_prompts_from_json" /\ InvalidDefinitions(last'.content) # {})
          => /\ ~last'.ok
             /\ last'.exc = "ValidationError"
             /\ mcp' = mcp
             /\ registered_prompts' = registered_prompts]_vars

\* a registration has failed on a document whose invalid definition follows
\* a valid one, on a registry that holds prompts already
C10_Witness ==
    /\ last.op = "register_prompts_from_json"
    /\ ~last.ok
    /\ 1 \notin InvalidDefinitions(last.content)
    /\ registered_prompts # <<>>
    /\ Len(mcp) = Len(registered_prompts)

\* the names the flattening gives the entries, and the positions filed under
\* one name
NamesOf(entries) == {ResolvedName(entries[i]) : i \in 1..Len(entries)}

PositionsNamed(entries, name) ==
    {i \in 1..Len(entries) : ResolvedName(entries[i]) = name}

\* the callables the host was handed by the step, in order
Handed == SubSeq(mcp', Len(mcp) + 1, Len(mcp'))

\* C11: a register_prompts_from_json that succeeds on a registry whose table
\* is empty hands the host one callable per name of the flattened mapping, and
\* leaves a table whose keys are those names, each holding the callable handed
\* over under that name and the definition the mapping has for it.
C11_RegistrationMirrorsMapping ==
    [][(last'.op = "register_prompts_from_json" /\ last'.ok /\ registered_prompts = <<>>)
          => LET names == NamesOf(last'.content)
             IN /\ Len(Handed) = Cardinality(names)
                /\ {Handed[i].name : i \in 1..Len(Handed)} = names
                /\ IsDict(registered_prompts')
                /\ DictKeys(registered_prompts') = names
                /\ \A name \in names :
                      LET pair == DictGet(registered_prompts', name)
                      IN /\ pair.definition =
                               last'.content[Max(PositionsNamed(last'.content, name))].def
                         /\ pair.function.name = name
                         /\ pair.function.prompt_def = pair.definition
                         /\ \E i \in 1..Len(Handed) : Handed[i] = pair.function]_vars

\* the first registration was of a document with three definitions under two
\* names
C11_Witness ==
    /\ last.op = "register_prompts_from_json"
    /\ last.ok
    /\ Len(last.content) = 3
    /\ Cardinality(NamesOf(last.content)) = 2
    /\ Len(mcp) = 2
    /\ DictKeys(registered_prompts) = NamesOf(last.content)

\* the positions in the host's list of the callables handed over under `name`
RegistrationsOf(name) == {i \in 1..Len(mcp) : mcp[i].name = name}

\* C12: get_prompt_definition(name) raises KeyError "Prompt not registered"
\* exactly when no registration under the name has completed; otherwise it
\* returns the definition of the latest registration under the name; in both
\* cases the table and the host are left as they were.
C12_RegistryLookup ==
    [][last'.op = "PromptRegistry.get_prompt_definition"
          => LET name == last'.prompt_name
             IN /\ ~last'.ok <=> RegistrationsOf(name) = {}
                /\ ~last'.ok => /\ last'.exc = "KeyError"
                                /\ last'.msg = "Prompt not registered: " \o name
                                /\ last'.returned = None
                /\ last'.ok => last'.returned =
                                  Some(mcp[Max(RegistrationsOf(name))].prompt_def)
                /\ registered_prompts' = registered_prompts
                /\ mcp' = mcp]_vars

\* a name registered twice is looked up
C12_Witness ==
    /\ last.op = "PromptRegistry.get_prompt_definition"
    /\ last.ok
    /\ Cardinality(RegistrationsOf(last.prompt_name)) = 2

\* the file load_content_from_json resolves its argument to
ResolvedContentFile ==
    last.input.fs[IF last.input.json_file_path = None THEN default_path
                  ELSE Get(last.input.json_file_path)]

\* C13: load_content_from_json returns only the parsed document of the
\* resolved file, and only when validate_content passes on it; it raises
\* FileNotFoundError when the resolved path has no file, otherwise a parse
\* error (a ValueError) when the file is not JSON, otherwise the validation
\* failure when the document violates the schema.
C13_LoadContentChecksInOrder ==
    last.op = "load_content_from_json"
        => LET file == ResolvedContentFile
           IN /\ last.ok => /\ file.kind = "json"
                            /\ last.returned = file.value
                            /\ validate_content(schema, Get(file.value)).ok
              /\ file.kind = "missing" => ~last.ok /\ last.exc = "FileNotFoundError"
              /\ file.kind = "malformed" => ~last.ok /\ last.exc = "ValueError"
              /\ file.kind = "undecodable" => ~last.ok /\ last.exc = "UnicodeDecodeError"
              /\ (file.kind = "json" /\ ~validate_content(schema, Get(file.value)).ok)
                    => ~last.ok /\ last.exc = "ValidationError"

\* the default file holds a document the schema rejects, and the call without
\* a path raised the validation failure
C13_Witness ==
    /\ last.op = "load_content_from_json"
    /\ last.input.json_file_path = None
    /\ ResolvedContentFile.kind = "json"
    /\ InvalidDefinitions(PromptEntries(Get(ResolvedContentFile.value))) # {}
    /\ last.exc = "ValidationError"

C15_InvocationsIndependent ==
    /\ \A c \in Contexts :
          calls[c].pc = "done"
             => calls[c].result =
                   Some(prompt_function(calls[c].prompt_name, calls[c].prompt_def,
                                        calls[c].kwargs))
    /\ loader = ServingLoader(content_data)
    /\ registered_prompts = ServingRegistry(schema, content_data).registered_prompts
    /\ mcp = ServingRegistry(schema, content_data).mcp

\* two invocations of the same callable with different arguments: one has
\* returned its message while the other is between validation and formatting
C15_Witness ==
    \E c, d \in Contexts :
        /\ calls[c].pc = "done"
        /\ Get(calls[c].result).ok
        /\ calls[d].pc \in {"process", "format"}
        /\ calls[d].prompt_name = calls[c].prompt_name
        /\ calls[d].kwargs # calls[c].kwargs

\* the path load_tips_from_json uses: the argument unless it is None, else
\* TIPS_JSON_PATH; and the file there
TipsPath ==
    IF last.input.json_file_path # None THEN last.input.json_file_path ELSE last.input.env

TipsPathAvailable == Has(TipsPath) /\ Get(TipsPath) # ""

TipsFile == last.input.fs[Get(TipsPath)]

\* the file holds a JSON mapping all of whose values are lists
TipsFileUsable ==
    /\ TipsFile.kind = "json"
    /\ Get(TipsFile.value).is_dict
    /\ \A i \in 1..Len(Get(TipsFile.value).items) :
          Get(TipsFile.value).items[i].val.is_list

C17_Original ==
    (last.op = "get_learning_tips_resource" /\ ~DictHas(last.input.items, "mcp"))
        => /\ last.ok
           /\ last.returned = Some("MCP Tips:\n\nNo MCP tips available at the moment.")

\* the declared arguments the loop over the specs stops at
FailingSpecs == OmittedRequired \cup RefusedByTypeCheck

\* the error of the spec at position i
SpecError(i) ==
    IF i \in OmittedRequired
    THEN "Required argument missing: " \o DeclaredArgs[i].name
    ELSE "Argument '" \o DeclaredArgs[i].name \o "' must be "
            \o (CASE DeclaredType(DeclaredArgs[i]) = "string" -> "a string"
                  [] DeclaredType(DeclaredArgs[i]) = "number" -> "a number"
                  [] DeclaredType(DeclaredArgs[i]) = "boolean" -> "a boolean")

\* C18: validation has two phases.  A call whose arguments hold an undeclared
\* key and also omit a required argument or carry a value the type check
\* refuses reports the unknown argument, wherever the undeclared key stands
\* among the supplied ones; a call with declared keys only reports the error
\* of the first spec, in declaration order, that fails.
C18_UnknownBeforeDeclared ==
    ValidatesArguments
        => /\ (~OnlyDeclaredKeys /\ FailingSpecs # {})
                 => /\ ~last.ok
                    /\ last.arg \notin DeclaredNames(last.prompt_def)
                    /\ last.msg = "Unknown argument: " \o last.arg
           /\ (OnlyDeclaredKeys /\ FailingSpecs # {})
                 => /\ ~last.ok
                    /\ last.arg = DeclaredArgs[Min(FailingSpecs)].name
                    /\ last.msg = SpecError(Min(FailingSpecs))

\* a refused value for the first spec, the required argument omitted, and an
\* undeclared key supplied last
C18_Witness ==
    /\ last.op = "validate_arguments"
    /\ last.prompt_def = LearningPlan
    /\ last.kwargs = <<Item("skill_level", PyInt(5)),
                       Item("unexpected_arg", PyStr("resource"))>>
    /\ last.msg = "Unknown argument: unexpected_arg"

LoaderGetters == {"get_prompt_names", "JSONPromptLoader.get_prompt_definition"}

\* C19 as stated: once load_prompts has succeeded on the loader, a call of
\* get_prompt_names or get_prompt_definition is served from the cached
\* mapping: it does not run load_prompts and leaves the loader loaded, with
\* the same cache, whatever valid document the loader holds.
C19_Original ==
    [][(loader.loaded /\ last'.op \in LoaderGetters)
          => /\ last'.load_runs = 0
             /\ loader' = loader]_vars

\* as C19, for the loaders whose cached mapping is not empty
C19_NonEmptyCacheServes ==
    [][(loader.loaded /\ loader.prompts # <<>> /\ last'.op \in LoaderGetters)
          => /\ last'.load_runs = 0
             /\ loader' = loader]_vars

\* the call returned the template as written and printed the warning
Degraded == last.op = "prompt_function" /\ last.ok /\ last.warning # ""

\* the positions of the declared arguments named `name`
DeclaredAs(name) == {j \in 1..Len(DeclaredArgs) : DeclaredArgs[j].name = name}

IsOptional(arg) == ~(Has(arg.required) /\ Get(arg.required))

\* the template has a placeholder for a declared optional argument that has
\* neither a supplied value nor a default
ReferencesUnfilledOptional ==
    \E i \in 1..Len(CalledTemplate) :
        /\ CalledTemplate[i].t \in {"named", "method"}
        /\ CalledTemplate[i].a \notin SuppliedKeys
        /\ \E j \in DeclaredAs(CalledTemplate[i].a) :
              IsOptional(DeclaredArgs[j]) /\ ~Has(DeclaredArgs[j].default)

ChosenBy(key, default) ==
    IF DictHas(last.args, key) THEN DictGet(last.args, key) ELSE PyStr(default)

SharedNames(entries) ==
    {name \in NamesOf(entries) : Cardinality(PositionsNamed(entries, name)) > 1}

\* C26: on a document of valid definitions of which two or more resolve to
\* one name, load_prompts returns; the mapping has one entry for the name,
\* the last definition in iteration order, and so fewer entries than the
\* document has definitions.  A registration of such a document hands the
\* host one callable for the name, made from that last definition, and the
\* registry's table holds one entry for it.
C26_LastDuplicateWins ==
    [][/\ (/\ last'.op = "load_prompts"
           /\ InvalidDefinitions(PromptEntries(content_data)) = {}
           /\ SharedNames(PromptEntries(content_data)) # {})
          => LET entries == PromptEntries(content_data)
             IN /\ last'.ok
                /\ IsDict(last'.returned)
                /\ Len(last'.returned) < Len(entries)
                /\ loader'.prompts = last'.returned
                /\ \A name \in SharedNames(entries) :
                      DictGet(last'.returned, name) =
                         entries[Max(PositionsNamed(entries, name))].def
       /\ (/\ last'.op = "register_prompts_from_json"
           /\ InvalidDefinitions(last'.content) = {}
           /\ SharedNames(last'.content) # {})
          => LET entries == last'.content
             IN /\ last'.ok
                /\ Len(Handed) < Len(entries)
                /\ Cardinality(DictKeys(registered_prompts') \cap NamesOf(entries))
                      < Len(entries)
                /\ \A name \in SharedNames(entries) :
                      LET given == {i \in 1..Len(Handed) : Handed[i].name = name}
                      IN /\ Cardinality(given) = 1
                         /\ \A i \in given :
                               Handed[i].prompt_def =
                                  entries[Max(PositionsNamed(entries, name))].def
                         /\ DictGet(registered_prompts', name).definition =
                               entries[Max(PositionsNamed(entries, name))].def]_vars

\* the document with two definitions named learning_plan_prompt has been
\* loaded, and registered once: the host holds the second definition only
C26_Witness ==
    /\ last.op = "register_prompts_from_json"
    /\ last.ok
    /\ SharedNames(last.content) = {"learning_plan_prompt"}
    /\ RegistrationsOf("learning_plan_prompt") = {1}
    /\ mcp[1].prompt_def = OtherLearningPlan
    /\ Len(loader.prompts) = 2
    /\ DictHas(loader.prompts, "learning_plan_prompt")
    /\ DictGet(loader.prompts, "learning_plan_prompt") = OtherLearningPlan

\* C27 as stated: once validation has passed, the callable of a definition
\* with a template returns one message and never raises, whatever pieces the
\* template has; the content is the substituted text or the template as
\* written.
C27_Original ==
    CallValidated
        => /\ last.ok
           /\ Len(last.messages) = 1
           /\ last.messages[1].content \in
                 {TemplateText(CalledTemplate),
                  format(_preprocess_template(CalledTemplate, ResolvedArguments),
                         ResolvedArguments).text}

\* the positions of the stored categories that are `category` up to the case
\* of its letters
SameCategory(items, category) ==
    {i \in 1..Len(items) :
        StrMethod("lower", items[i].key) = StrMethod("lower", category)}

\* C22 as stated: the resource matches categories whatever the case of the
\* letters: for a stored category and any casing of it, the text is the
\* category's tips numbered in stored order, then a footer with every other
\* category; for an input that is no stored category, the text says so and
\* lists every category.
C22_Original ==
    last.op = "get_tips_by_category"
        => LET items == last.input.tips_by_category.items
               category == last.input.category
               keys == [i \in 1..Len(items) |-> items[i].key]
               same == SameCategory(items, category)
           IN IF same # {}
              THEN \E i \in same :
                      Get(last.returned) =
                         StrMethod("upper", category) \o " Learning Tips:\n\n"
                            \o NumberedTips(items[i].val.tips, 1)
                            \o "\nOther available categories: "
                            \o Join(SelectSeq(keys, LAMBDA cat : cat # items[i].key))
              ELSE Get(last.returned) =
                      "Category '" \o category \o "' not found.\n\nAvailable categories: "
                         \o Join(keys)

\* what the code does hold: the same, for the tips data whose keys are all
\* in lower case
C22_LowerCaseKeysMatch ==
    (last.op = "get_tips_by_category"
     /\ \A i \in 1..Len(last.input.tips_by_category.items) :
           LET key == last.input.tips_by_category.items[i].key
           IN StrMethod("lower", key) = key)
        => LET items == last.input.tips_by_category.items
               category == last.input.category
               keys == [i \in 1..Len(items) |-> items[i].key]
               same == SameCategory(items, category)
           IN IF same # {}
              THEN \E i \in same :
                      Get(last.returned) =
                         StrMethod("upper", category) \o " Learning Tips:\n\n"
                            \o NumberedTips(items[i].val.tips, 1)
                            \o "\nOther available categories: "
                            \o Join(SelectSeq(keys, LAMBDA cat : cat # items[i].key))
              ELSE Get(last.returned) =
                      "Category '" \o category \o "' not found.\n\nAvailable categories: "
                         \o Join(keys)

\* C28 as stated: for a target date in the format, whatever the time of day,
\* the result has is_today exactly when target_date is its current_date, and
\* then days_difference is 0 and is_past and is_future are false; a target
\* one day after current_date is in the future, days_difference positive.
C28_Original ==
    (last.op = "calculate_days_until_date" /\ ~Has(Get(last.returned).error))
        => LET result == Get(last.returned)
               today == last.input.today.day
           IN /\ Get(result.is_today) <=> result.target_date = result.current_date
              /\ Get(result.is_today)
                    => /\ Get(result.days_difference) = 0
                       /\ ~Get(result.is_past)
                       /\ ~Get(result.is_future)
              /\ (today < Len(Calendar) /\ Get(result.target_date) = Calendar[today + 1])
                    => Get(result.is_future) /\ Get(result.days_difference) > 0

\* what the code does hold: the same at midnight, the one instant of a day
\* at which the clock shows no time past the date
C28_AtMidnight ==
    (last.op = "calculate_days_until_date" /\ ~Has(Get(last.returned).error)
     /\ last.input.today.tick = 0)
        => LET result == Get(last.returned)
               today == last.input.today.day
           IN /\ Get(result.is_today) <=> result.target_date = result.current_date
              /\ Get(result.is_today)
                    => /\ Get(result.days_difference) = 0
                       /\ ~Get(result.is_past)
                       /\ ~Get(result.is_future)
              /\ (today < Len(Calendar) /\ Get(result.target_date) = Calendar[today + 1])
                    => Get(result.is_future) /\ Get(result.days_difference) > 0

\* the client methods that ask the server for something
ListMethods == {"list_tools", "list_resources", "list_prompts"}

MappingMethods == {"read_resource", "get_prompt", "call_tool"}

\* the step is a call of one of the six methods
RequestCalled == last.op = "idle" /\ last'.op \in ListMethods \cup MappingMethods

\* the server the client holds a handle of is running
ServerRunning == Has(client.process) /\ server.procs[Get(client.process)] = "running"

\* C23: a call of list_tools, list_resources, read_resource, list_prompts,
\* get_prompt or call_tool on a client whose initialized flag is false raises
\* "Client not initialized"; the request counter is what it was and nothing
\* is written to a server's stdin.
C23_UninitializedSendsNothing ==
    [][(RequestCalled /\ ~client.initialized)
          => /\ ~last'.ok
             /\ last'.msg = "Client not initialized"
             /\ client' = client
             /\ server' = server]_vars

\* call_tool after a successful initialize and a close: refused, and the log
\* holds what was written before the close only
C23_Witness ==
    /\ last.op = "call_tool"
    /\ ~last.ok
    /\ ~client.initialized
    /\ client.process = None
    /\ client.request_id = 1
    /\ server.stdin = <<[id |-> Some(1), method |-> "initialize"],
                        [id |-> None, method |-> "notifications/initialized"]>>

\* C24: a call of one of the six methods on a client whose initialized flag
\* is true returns; when the server process is not running, or sends an
\* error response, no response or no JSON, or the write fails, read_resource,
\* get_prompt and call_tool return a mapping with the key "error", and
\* list_tools, list_resources and list_prompts return the empty list.
C24_InitializedNeverRaises ==
    [][(RequestCalled /\ client.initialized)
          => /\ last'.ok
             /\ Has(last'.returned)
             /\ (~ServerRunning
                 \/ last'.reply \in {"error", "eof", "garbage", "broken_pipe"})
                   => IF last'.op \in ListMethods
                      THEN Get(last'.returned) = <<>>
                      ELSE Has(Get(last'.returned).error)]_vars

\* call_tool on an initialized client whose server has exited
C24_Witness ==
    /\ last.op = "call_tool"
    /\ last.ok
    /\ client.initialized
    /\ Has(client.process)
    /\ server.procs[Get(client.process)] = "exited"
    /\ Get(last.returned).error = Some("Server not running")

\* C25: close() on a client that holds a process handle leaves the handle
\* absent and initialized false, however the shutdown went; and in every
\* state a client whose initialized flag is true holds a process handle.
C25_CloseClearsHandleAndFlag ==
    [][/\ (last.op = "idle" /\ last'.op = "close" /\ Has(client.process))
             => client'.process = None /\ ~client'.initialized
       /\ client'.initialized => Has(client'.process)]_vars

\* an initialized client closed, the server killed after the timeout
C25_Witness ==
    /\ last.op = "close"
    /\ last.reply = "kill"
    /\ client.process = None
    /\ ~client.initialized
    /\ server.procs = <<"exited">>
    /\ \E i \in 1..Len(server.stdin) :
          server.stdin[i].method = "notifications/initialized"

C30_Original ==
    [][(last.op = "idle" /\ last'.op = "initialize" /\ last'.returned = Some(FALSE))
          => ~client'.initialized]_vars

\* what the code does hold: an initialize() that returns False leaves the
\* flag as it was
C30_FailureLeavesFlag ==
    [][(last.op = "idle" /\ last'.op = "initialize" /\ last'.returned = Some(FALSE))
          => client'.initialized = client.initialized]_vars
====
